---- MODULE Spec2Model ----
(***************************************************************************)
(* State-machine model of the layered Redmine crawler:                     *)
(*   CrawlRequest (domain/value_objects/common.py),                        *)
(*   IssueId (domain/entities/issue.py),                                   *)
(*   CrawlValidationService and IssueCrawlerService                        *)
(*     (domain/services/crawler_service.py),                               *)
(*   CrawlerService.crawl_issues (application/services/crawler_service.py).*)
(*                                                                         *)
(* Python strings are sequences of one-character strings.  An entry of     *)
(* issue_numbers is a record [kind, text]: kind is the Python type of the  *)
(* entry ("str", or "int" for an entry that is not a string) and text is   *)
(* str(entry).                                                             *)
(*                                                                         *)
(* One crawl_issues call is followed step by step; process_issue and its   *)
(* helpers are inlined at their call site.  The repositories are the       *)
(* environment: every call to one of them returns or raises one of the     *)
(* outcomes its interface allows.                                          *)
(***************************************************************************)
EXTENDS Integers, Sequences, FiniteSets, TLC

\* ------------------------------------------------------------------ bounds
MaxIssues == 3
MaxAttachments == 2
MaxHandlers == 1

\* ----------------------------------------------------------------- strings
StrEntry(s) == [kind |-> "str", text |-> s]
IntEntry(s) == [kind |-> "int", text |-> s]

ID100 == StrEntry(<<"1", "0", "0">>)
ID101 == StrEntry(<<"1", "0", "1">>)
BADID == StrEntry(<<"b", "a", "d", " ", "i", "d">>)
BLANK == StrEntry(<<" ">>)
EMPTY == StrEntry(<<>>)
INT7 == IntEntry(<<"7">>)

Whitespace == {" "}
DigitChars == {"0", "1", "7"}

RECURSIVE lstrip(_)
lstrip(s) ==
    IF s # <<>> /\ Head(s) \in Whitespace THEN lstrip(Tail(s)) ELSE s

RECURSIVE rstrip(_)
rstrip(s) ==
    IF s # <<>> /\ s[Len(s)] \in Whitespace
    THEN rstrip(SubSeq(s, 1, Len(s) - 1))
    ELSE s

Last(s) == s[Len(s)]

\* str.strip()
strip(s) == rstrip(lstrip(s))

\* Python truthiness of an entry: a non-empty string, a non-zero integer.
Truthy(x) == IF x.kind = "str" THEN x.text # <<>> ELSE x.text # <<"0">>

\* int(issue_id) does not raise ValueError.
ParsesAsInt(x) ==
    \/ x.kind = "int"
    \/ /\ strip(x.text) # <<>>
       /\ \A k \in 1..Len(strip(x.text)) : strip(x.text)[k] \in DigitChars

\* CrawlValidationService.validate_issue_id
validate_issue_id(x) ==
    IF ~Truthy(x) \/ strip(x.text) = <<>> THEN FALSE ELSE ParsesAsInt(x)

\* IssueId.__post_init__ raises: ValueError for an empty or blank value,
\* AttributeError when the value has no strip method.
IssueIdRaises(x) ==
    \/ ~Truthy(x)
    \/ x.kind # "str"
    \/ strip(x.text) = <<>>

\* Mutant of IssueIdValue: the value is stored as it came.
IssueIdValue_Unstripped(x) == x.text

\* IssueId(x).value after a construction that did not raise.
IssueIdValue(x) == strip(x.text)

\* The exception of an IssueId construction that raises: ValueError from
\* line 18, AttributeError from the strip call on a value that is not a
\* string.
IssueIdException(x) ==
    IF Truthy(x) /\ x.kind # "str" THEN "AttributeError" ELSE "ValueError"

\* Mutant of CrawlRequestRaises: the entries are not looked at.
CrawlRequestRaises_EmptyOnly(ids) == ids = <<>>

\* CrawlRequest.__post_init__ raises ValueError.
CrawlRequestRaises(ids) ==
    \/ ids = <<>>
    \/ \E k \in 1..Len(ids) : ~Truthy(ids[k]) \/ strip(ids[k].text) = <<>>

\* CrawlValidationService.validate_crawl_request: the list of violations.
validate_crawl_request(req) ==
    (IF req.issue_numbers = <<>> THEN <<"empty list">> ELSE <<>>)
    \o SelectSeq([k \in 1..Len(req.issue_numbers) |->
                    IF strip(req.issue_numbers[k].text) = <<>>
                    THEN "blank entry" ELSE "ok"],
                 LAMBDA v : v = "blank entry")
    \o (IF req.parent_exists THEN <<>> ELSE <<"parent directory missing">>)

\* ------------------------------------------------------------------- state
VARIABLES
    pc,                 \* position of the crawl_issues call
    raised,             \* exception that left the constructor or crawl_issues
    request,            \* the CrawlRequest
    session_id,         \* CrawlerService._session_id
    i,                  \* position of the loop in issue_numbers (1-based)
    successful_count,   \* local of crawl_issues
    failed_count,       \* local of crawl_issues
    issue,              \* local of process_issue: the fetched Issue
    j,                  \* position of _process_attachments in issue.attachments
    downloaded_count,   \* local of _process_attachments
    pdf_generated,      \* local of process_issue
    ret,                \* what the last process_issue call returned
    result,             \* the CrawlResult crawl_issues returned
    handlers,           \* IssueCrawlerService._event_handlers
    pending,            \* handler tasks created on the loop and not yet run
    events,             \* events published since the last inter-record sleep
    received,           \* per handler: the events it was handed since then
    calls,              \* repository calls made for the current record, each
                        \* with whether it returned what its caller hoped for
                        \* and how many events of the window had been
                        \* published when it was made
    processed,          \* values of the IssueIds process_issue was called with
    sleeps,             \* loop positions after which asyncio.sleep was awaited
    downloads_ok,       \* attachments whose download returned True, per session
    renders_ok          \* records completed with pdf_generated = True, per session

\* EventBus (infrastructure/events/event_system.py)
VARIABLES
    bus_handlers,       \* EventBus._handlers: event type -> list of handlers
    global_handlers,    \* EventBus._global_handlers
    invoked,            \* the handle() calls of the last publish, in order
    bus_raised,         \* exception that left the last EventBus call
    last_op             \* the last EventBus call

\* _sanitize_filename (domain/services/crawler_service.py)
VARIABLES
    filename,           \* the argument of the first call
    sanitized,          \* what the first call returned
    resanitized         \* what a second call on that result returned

\* Issue (domain/entities/issue.py)
VARIABLES
    attachments,        \* Issue.attachments
    removed             \* what the last remove_attachment call returned

\* Overlapping crawl_issues calls on one CrawlerService
VARIABLES
    now,                \* int(time.time())
    call                \* per call: its position and its locals

\* Value objects built directly (domain/value_objects, domain/entities)
VARIABLES
    arg,                \* the argument of the last constructor call
    made                \* what the call came to

\* ConfigurationManager (infrastructure/config/settings.py)
VARIABLES
    request_delay       \* config.redmine.request_delay: "float" or "str"

\* FileSystemAttachmentRepository (infrastructure/storage/file_storage.py)
VARIABLES
    att_size,           \* attachment.size: {} for None, or {number of bytes}
    file,               \* the file at save_path: {} if absent, or {length}
    save_call           \* the last save_attachment call and what it returned

\* The document name of _generate_pdf (domain/services/crawler_service.py)
VARIABLES
    pdf_issue,          \* the Issue: its id value and its title
    pdf_filename        \* the name _generate_pdf builds for it

\* _publish_event on a running loop (domain/services/crawler_service.py)
VARIABLES
    event_handlers,     \* IssueCrawlerService._event_handlers
    loop_tasks,         \* the tasks create_task put on the loop, oldest first
    delivered,          \* the handle(event) calls that ran, in time order
    published,          \* how many events _publish_event was called with
    escaped             \* whether an exception left _publish_event

\* StatisticsEventHandler and the wiring of main.py
\* One batch of records given both to RedmineCrawler (redmine_crawler.py) and
\* to the layered crawler.
VARIABLES
    batch               \* records done, the last one's outcomes, both counts

VARIABLES
    wiring,             \* what the service's _publish_event is
    unawaited,          \* coroutines that were made and never awaited
    stats,              \* StatisticsEventHandler._statistics
    tally,              \* the events handed to handle() since the last reset
    stat_op             \* the last operation on the handler or the service

crawlVars == <<pc, raised, request, session_id, i, successful_count,
               failed_count, issue, j, downloaded_count, pdf_generated, ret,
               result, handlers, pending, events, received, calls, processed,
               sleeps, downloads_ok, renders_ok>>
busVars == <<bus_handlers, global_handlers, invoked, bus_raised, last_op>>
nameVars == <<filename, sanitized, resanitized>>
entityVars == <<attachments, removed>>
overlapVars == <<now, call>>
valueVars == <<arg, made>>
configVars == <<request_delay>>
storageVars == <<att_size, file, save_call>>
pdfVars == <<pdf_issue, pdf_filename>>
publishVars == <<event_handlers, loop_tasks, delivered, published, escaped>>
statVars == <<wiring, unawaited, stats, tally, stat_op>>
legacyVars == <<batch>>

\* What a step that loads the configuration leaves alone.
outsideConfig == <<crawlVars, busVars, nameVars, entityVars, overlapVars,
                   valueVars, storageVars, pdfVars, publishVars, statVars,
                   legacyVars>>

\* What a call of the attachment repository leaves alone.
outsideStorage == <<crawlVars, busVars, nameVars, entityVars, overlapVars,
                    valueVars, configVars, pdfVars, publishVars, statVars,
                    legacyVars>>

\* What naming the document of a record leaves alone.
outsidePdf == <<crawlVars, busVars, nameVars, entityVars, overlapVars,
                valueVars, configVars, storageVars, publishVars, statVars,
                legacyVars>>

\* What a call of _publish_event on its own leaves alone.
outsidePublish == <<crawlVars, busVars, nameVars, entityVars, overlapVars,
                    valueVars, configVars, storageVars, pdfVars, statVars,
                    legacyVars>>

\* What handing events to a StatisticsEventHandler leaves alone.
outsideStat == <<crawlVars, busVars, nameVars, entityVars, overlapVars,
                 valueVars, configVars, storageVars, pdfVars, publishVars,
                 legacyVars>>

\* What a record of the legacy crawler leaves alone.
outsideLegacy == <<crawlVars, busVars, nameVars, entityVars, overlapVars,
                   valueVars, configVars, storageVars, pdfVars, publishVars,
                   statVars>>

\* What a step of the single crawl_issues call leaves alone.
outsideCrawl == <<busVars, nameVars, entityVars, overlapVars, valueVars,
                  configVars, storageVars, pdfVars, publishVars, statVars,
                  legacyVars>>

vars == <<crawlVars, busVars, nameVars, entityVars, overlapVars, valueVars,
          configVars, storageVars, pdfVars, publishVars, statVars,
          legacyVars>>

NoRequest == [issue_numbers |-> <<>>, parent_exists |-> FALSE]
\* process_issue has no Issue yet: get_by_id has not returned.
NoIssue == [fetch |-> "pending", attachments |-> 0]
NoResult == [returned |-> FALSE]

\* ------------------------------------------------------------------ events
IssueProcessingStarted(id) ==
    [type |-> "IssueProcessingStarted", issue_id |-> id]
IssueProcessingCompleted(id, success, n, pdf) ==
    [type |-> "IssueProcessingCompleted", issue_id |-> id, success |-> success,
     attachments_downloaded |-> n, pdf_generated |-> pdf]
IssueProcessingFailed(id, msg) ==
    [type |-> "IssueProcessingFailed", issue_id |-> id, error_message |-> msg]
AttachmentDownloadStarted(id, f) ==
    [type |-> "AttachmentDownloadStarted", issue_id |-> id, filename |-> f]
AttachmentDownloadCompleted(id, f) ==
    [type |-> "AttachmentDownloadCompleted", issue_id |-> id, filename |-> f]
PdfGenerationStarted(id) ==
    [type |-> "PdfGenerationStarted", issue_id |-> id]
PdfGenerationCompleted(id) ==
    [type |-> "PdfGenerationCompleted", issue_id |-> id]
CrawlSessionStarted(sid, total) ==
    [type |-> "CrawlSessionStarted", session_id |-> sid, total_issues |-> total]
\* Mutant of CrawlSessionCompleted: the two counts are passed the other way
\* round.
CrawlSessionCompleted_Swapped(sid, total, ok) ==
    [type |-> "CrawlSessionCompleted", session_id |-> sid,
     total_issues |-> ok, successful_issues |-> total]

CrawlSessionCompleted(sid, total, ok) ==
    [type |-> "CrawlSessionCompleted", session_id |-> sid,
     total_issues |-> total, successful_issues |-> ok]

RecordEventTypes ==
    {"IssueProcessingStarted", "IssueProcessingCompleted",
     "IssueProcessingFailed", "AttachmentDownloadStarted",
     "AttachmentDownloadCompleted", "PdfGenerationStarted",
     "PdfGenerationCompleted"}

\* The bus state threaded through one step: the published events, the tasks
\* waiting on the loop, and what each handler was handed.
Bus == [ev |-> events, pend |-> pending, recv |-> received]

\* The handlers whose handle is a coroutine function: "coroutine" returns
\* without suspending, "awaiting" awaits something that suspends it.
CoroutineKinds == {"coroutine", "awaiting"}

\* One handler of _publish_event's loop: a coroutine handler becomes a task on
\* the running loop, any other handler is called at once.
RECURSIVE Dispatch(_, _, _)
Dispatch(b, e, h) ==
    IF h > Len(handlers) THEN b
    ELSE IF handlers[h] \in CoroutineKinds
         THEN Dispatch([b EXCEPT !.pend = Append(@, <<h, e>>)], e, h + 1)
         ELSE Dispatch([b EXCEPT !.recv[h] = Append(@, e)], e, h + 1)

\* IssueCrawlerService._publish_event
PublishEvent(b, e) == Dispatch([b EXCEPT !.ev = Append(@, e)], e, 1)

\* Mutant of RunTasks: the newest task runs first.
RECURSIVE RunTasks_NewestFirst(_, _)
RunTasks_NewestFirst(recv, tasks) ==
    IF tasks = <<>> THEN recv
    ELSE RunTasks_NewestFirst(
             [recv EXCEPT ![Last(tasks)[1]] = Append(@, Last(tasks)[2])],
             SubSeq(tasks, 1, Len(tasks) - 1))

\* The loop runs the tasks that are ready, oldest first, when the running
\* coroutine suspends.
RECURSIVE RunTasks(_, _)
RunTasks(recv, tasks) ==
    IF tasks = <<>> THEN recv
    ELSE RunTasks([recv EXCEPT ![Head(tasks)[1]] = Append(@, Head(tasks)[2])],
                  Tail(tasks))

\* An await that suspends (y) lets every waiting task run before it resumes.
Await(b, y) ==
    IF y THEN [b EXCEPT !.pend = <<>>, !.recv = RunTasks(b.recv, b.pend)]
    ELSE b

SetBus(b) ==
    /\ events' = b.ev
    /\ pending' = b.pend
    /\ received' = b.recv

\* ------------------------------------------------------------------ inputs
IssueNumbers == {ID100, BADID, BLANK, EMPTY}

RECURSIVE SeqsUpTo(_, _)
SeqsUpTo(S, n) ==
    IF n = 0 THEN {<<>>}
    ELSE LET shorter == SeqsUpTo(S, n - 1)
         IN shorter \cup {Append(s, x) : s \in shorter, x \in S}

\* EventBus.__init__
InitBus ==
    /\ bus_handlers = <<>>
    /\ global_handlers = <<>>
    /\ invoked = <<>>
    /\ bus_raised = "none"
    /\ last_op = [op |-> "init", type |-> "none", handler |-> "none"]

NotCalled == [called |-> FALSE]

\* No _sanitize_filename call yet.
InitName ==
    /\ filename = <<>>
    /\ sanitized = NotCalled
    /\ resanitized = NotCalled

\* Issue(id): attachments defaults to the empty list.
InitEntity ==
    /\ attachments = <<>>
    /\ removed = "none"

\* The two crawl_issues calls made on one CrawlerService.
Calls == {1, 2}

\* A call that has not been made: its locals do not exist yet.
NoCall ==
    [pc |-> "idle", total |-> 0, i |-> 0, successful_count |-> 0,
     failed_count |-> 0, started_id |-> <<>>, completed_id |-> <<>>,
     own_ok |-> 0, own_failed |-> 0, result |-> NoResult]

\* No crawl_issues call has been made.
InitOverlap ==
    /\ now = 0
    /\ call = [c \in Calls |-> NoCall]

\* No constructor has been called directly.
InitValue ==
    /\ arg = <<>>
    /\ made = [kind |-> "none"]

\* RedmineConfig.request_delay: float = 1.0
InitConfig == request_delay = "float"

\* An Attachment as the parser builds it (size=None) and no file yet.
InitStorage ==
    /\ att_size = {}
    /\ file = {}
    /\ save_call = [called |-> FALSE]

\* No record is being rendered.
InitPdf ==
    /\ pdf_issue = [id |-> <<>>, title |-> <<>>]
    /\ pdf_filename = NotCalled

\* StatisticsEventHandler.__init__, lines 62-71
NoStatistics ==
    [issues_processed |-> 0, issues_successful |-> 0, issues_failed |-> 0,
     attachments_downloaded |-> 0, pdfs_generated |-> 0,
     sessions_started |-> 0, sessions_completed |-> 0]

\* The service as its constructor leaves it: _publish_event is the method,
\* and the StatisticsEventHandler has handled nothing.
InitLegacy ==
    batch = [done |-> 0, record |-> [fetch |-> "pending"],
             success_count |-> 0, successful_count |-> 0]

InitStat ==
    /\ wiring = "method"
    /\ unawaited = 0
    /\ stats = NoStatistics
    /\ tally = <<>>
    /\ stat_op = [op |-> "init"]

\* IssueCrawlerService.__init__: self._event_handlers = []
InitPublish ==
    /\ event_handlers = <<>>
    /\ loop_tasks = <<>>
    /\ delivered = <<>>
    /\ published = 0
    /\ escaped = FALSE

InitCrawl ==
    /\ pc = "new"
    /\ raised = "none"
    /\ request = NoRequest
    /\ session_id = ""
    /\ i = 0
    /\ successful_count = 0
    /\ failed_count = 0
    /\ issue = NoIssue
    /\ j = 0
    /\ downloaded_count = 0
    /\ pdf_generated = FALSE
    /\ ret = "none"
    /\ result = NoResult
    /\ handlers = <<>>
    /\ pending = <<>>
    /\ events = <<>>
    /\ received = <<>>
    /\ calls = <<>>
    /\ processed = <<>>
    /\ sleeps = <<>>
    /\ downloads_ok = 0
    /\ renders_ok = 0

Init ==
    /\ InitCrawl
    /\ InitBus
    /\ InitName
    /\ InitEntity
    /\ InitOverlap
    /\ InitValue
    /\ InitConfig
    /\ InitStorage
    /\ InitPdf
    /\ InitPublish
    /\ InitStat
    /\ InitLegacy

\* CrawlRequest(issue_numbers, output_directory)
NewCrawlRequest(ids, parent) ==
    /\ pc = "new"
    /\ IF CrawlRequestRaises(ids)
       THEN /\ pc' = "rejected"
            /\ raised' = "ValueError"
            /\ UNCHANGED request
       ELSE /\ pc' = "ready"
            /\ request' = [issue_numbers |-> ids, parent_exists |-> parent]
            /\ UNCHANGED raised
    /\ UNCHANGED <<session_id, i, successful_count, failed_count, issue, j,
                   downloaded_count, pdf_generated, ret, result, handlers,
                   pending, events, received, calls, processed, sleeps,
                   downloads_ok, renders_ok>>
    /\ UNCHANGED outsideCrawl

\* crawl_issues, lines 33-36: the request does not pass validation.
CrawlIssuesInvalid ==
    /\ pc = "ready"
    /\ validate_crawl_request(request) # <<>>
    /\ pc' = "raised"
    /\ raised' = "ValueError"
    /\ UNCHANGED <<request, session_id, i, successful_count, failed_count,
                   issue, j, downloaded_count, pdf_generated, ret, result,
                   handlers, pending, events, received, calls, processed,
                   sleeps, downloads_ok, renders_ok>>
    /\ UNCHANGED outsideCrawl

\* crawl_issues, lines 38-47: session id, CrawlSessionStarted, counters.
StartSession ==
    /\ pc = "ready"
    /\ session_id' = "crawl_t"
    /\ SetBus(PublishEvent(Bus,
            CrawlSessionStarted("crawl_t", Len(request.issue_numbers))))
    /\ successful_count' = 0
    /\ failed_count' = 0
    /\ i' = 1
    /\ pc' = "loop"
    /\ UNCHANGED <<raised, request, issue, j, downloaded_count, pdf_generated,
                   ret, result, handlers, calls, processed, sleeps,
                   downloads_ok, renders_ok>>
    /\ UNCHANGED outsideCrawl

\* Mutant of CrawlIssuesStart: the session starts without the validation.
CrawlIssuesStart_Unchecked == StartSession

\* crawl_issues, lines 33-47: the request passes validation.
CrawlIssuesStart ==
    /\ validate_crawl_request(request) = <<>>
    /\ StartSession

\* The loop body up to the first await of process_issue: IssueId(issue_number)
\* and the IssueProcessingStarted event.
ProcessIssueStart ==
    /\ pc = "loop"
    /\ i <= Len(request.issue_numbers)
    /\ ~IssueIdRaises(request.issue_numbers[i])
    /\ LET id == IssueIdValue(request.issue_numbers[i])
       IN /\ processed' = Append(processed, id)
          /\ SetBus(PublishEvent(Bus, IssueProcessingStarted(id)))
    /\ issue' = NoIssue
    /\ j' = 0
    /\ downloaded_count' = 0
    /\ pdf_generated' = FALSE
    /\ ret' = "none"
    /\ calls' = <<>>
    /\ pc' = "fetch"
    /\ UNCHANGED <<raised, request, session_id, i, successful_count,
                   failed_count, result, handlers, sleeps, downloads_ok,
                   renders_ok>>
    /\ UNCHANGED outsideCrawl

\* Mutant of IssueIdFails: the exception is not caught in the loop and
\* leaves crawl_issues.
IssueIdFails_Escapes ==
    /\ pc = "loop"
    /\ i <= Len(request.issue_numbers)
    /\ IssueIdRaises(request.issue_numbers[i])
    /\ pc' = "raised"
    /\ raised' = "AttributeError"
    /\ UNCHANGED <<request, session_id, i, successful_count, failed_count,
                   issue, j, downloaded_count, pdf_generated, ret, result,
                   handlers, pending, events, received, calls, processed,
                   sleeps, downloads_ok, renders_ok>>
    /\ UNCHANGED outsideCrawl

\* crawl_issues, lines 66-68: IssueId(issue_number) raises inside the loop.
IssueIdFails ==
    /\ pc = "loop"
    /\ i <= Len(request.issue_numbers)
    /\ IssueIdRaises(request.issue_numbers[i])
    /\ failed_count' = failed_count + 1
    /\ i' = i + 1
    /\ UNCHANGED <<pc, raised, request, session_id, successful_count, issue, j,
                   downloaded_count, pdf_generated, ret, result, handlers,
                   pending, events, received, calls, processed, sleeps,
                   downloads_ok, renders_ok>>
    /\ UNCHANGED outsideCrawl

\* Mutant of Counted: the else branch is missing.
Counted_NoElse(success) ==
    /\ successful_count' = IF success THEN successful_count + 1
                           ELSE successful_count
    /\ failed_count' = failed_count

\* crawl_issues, lines 58-61: the counter a process_issue outcome goes to.
Counted(success) ==
    /\ successful_count' = IF success THEN successful_count + 1
                           ELSE successful_count
    /\ failed_count' = IF success THEN failed_count ELSE failed_count + 1

\* Mutant of Return: the except handler returns True as well.
Return_AlwaysTrue(success) ==
    /\ ret' = "true"
    /\ Counted(TRUE)
    /\ pc' = "sleep"

\* process_issue returns: the value goes to the caller's counters and the
\* caller reaches its asyncio.sleep.
Return(success) ==
    /\ ret' = IF success THEN "true" ELSE "false"
    /\ Counted(success)
    /\ pc' = "sleep"

\* Mutant of NotFound: None is not checked for.
NotFound_Never(outcome) == FALSE

\* process_issue, line 70: "if not issue".
NotFound(outcome) == outcome = "none"

\* process_issue, lines 69-75 and 98-103: await get_by_id.  It returns an
\* Issue with n attachments, returns None, or raises.
GetById(outcome, n, y) ==
    /\ pc = "fetch"
    /\ calls' = Append(calls, <<"get_by_id", outcome, Len(events)>>)
    /\ issue' = [fetch |-> outcome,
                 attachments |-> IF outcome = "issue" THEN n ELSE 0]
    /\ LET id == IssueIdValue(request.issue_numbers[i])
           b == Await(Bus, y)
       IN CASE outcome = "raise" ->
                 /\ SetBus(PublishEvent(b, IssueProcessingFailed(id, "exception")))
                 /\ Return(FALSE)
                 /\ UNCHANGED j
            [] outcome # "raise" /\ NotFound(outcome) ->
                 /\ SetBus(PublishEvent(b, IssueProcessingFailed(id, "not found")))
                 /\ Return(FALSE)
                 /\ UNCHANGED j
            [] OTHER ->
                 /\ j' = 1
                 /\ pc' = IF issue'.attachments = 0 THEN "pdf" ELSE "attachments"
                 /\ SetBus(b)
                 /\ UNCHANGED <<ret, successful_count, failed_count>>
    /\ UNCHANGED <<raised, request, session_id, i, downloaded_count,
                   pdf_generated, result, handlers, processed, sleeps,
                   downloads_ok, renders_ok>>
    /\ UNCHANGED outsideCrawl

\* Mutant of NextAttachment: a failed download ends the loop.
NextAttachment_Break(k, outcome, n) == IF outcome = "true" THEN k + 1 ELSE n + 1

\* _process_attachments, lines 109-136: the try/except is inside the for
\* loop, which goes on to the next attachment whatever the download did.
NextAttachment(k, outcome, n) == k + 1

\* Mutant of BeforeDownload: the download is invoked without the event.
BeforeDownload_Unannounced(b, id, f) == b

\* _process_attachments, lines 112-115: AttachmentDownloadStarted is
\* published before download_attachment is invoked.
BeforeDownload(b, id, f) == PublishEvent(b, AttachmentDownloadStarted(id, f))

\* _process_attachments, lines 109-136: one iteration of the loop.
DownloadAttachment(outcome, y) ==
    /\ pc = "attachments"
    /\ j <= issue.attachments
    /\ LET id == IssueIdValue(request.issue_numbers[i])
           invoked_at == BeforeDownload(Bus, id, j)
           started == Await(invoked_at, y)
       IN /\ calls' = Append(calls,
                 <<"download_attachment",
                   IF outcome = "true" THEN "true" ELSE "failed",
                   Len(invoked_at.ev)>>)
          /\ IF outcome = "true"
             THEN /\ downloaded_count' = downloaded_count + 1
                  /\ downloads_ok' = downloads_ok + 1
                  /\ SetBus(PublishEvent(started,
                                         AttachmentDownloadCompleted(id, j)))
             ELSE /\ SetBus(started)
                  /\ UNCHANGED <<downloaded_count, downloads_ok>>
    /\ j' = NextAttachment(j, outcome, issue.attachments)
    /\ pc' = IF j' > issue.attachments THEN "pdf" ELSE "attachments"
    /\ UNCHANGED <<raised, request, session_id, i, successful_count,
                   failed_count, issue, pdf_generated, ret, result, handlers,
                   processed, sleeps, renders_ok>>
    /\ UNCHANGED outsideCrawl

\* Mutant of BeforeRender: the render is invoked without the event.
BeforeRender_Unannounced(b, id) == b

\* _generate_pdf, lines 143-159: PdfGenerationStarted is published before
\* generate_pdf is invoked.
BeforeRender(b, id) == PublishEvent(b, PdfGenerationStarted(id))

\* _generate_pdf, lines 142-172.  generate_pdf returns True or False or
\* raises; after True the size lookup for the event may raise ("true_nostat").
GeneratePdf(outcome, y) ==
    /\ pc = "pdf"
    /\ LET id == IssueIdValue(request.issue_numbers[i])
           invoked_at == BeforeRender(Bus, id)
           started == Await(invoked_at, y)
       IN /\ calls' = Append(calls,
                 <<"generate_pdf",
                   IF outcome \in {"false", "raise"} THEN "failed" ELSE outcome,
                   Len(invoked_at.ev)>>)
          /\ IF outcome = "true"
             THEN /\ pdf_generated' = TRUE
                  /\ SetBus(PublishEvent(started, PdfGenerationCompleted(id)))
             ELSE /\ pdf_generated' = FALSE
                  /\ SetBus(started)
    /\ pc' = "save"
    /\ UNCHANGED <<raised, request, session_id, i, successful_count,
                   failed_count, issue, j, downloaded_count, ret, result,
                   handlers, processed, sleeps, downloads_ok, renders_ok>>
    /\ UNCHANGED outsideCrawl

\* Mutant of CompletionEvent: success follows the PDF flag.
CompletionEvent_PdfGated(id, n, pdf) == IssueProcessingCompleted(id, pdf, n, pdf)

\* process_issue, lines 89-94: the event of a record that went through.
CompletionEvent(id, n, pdf) == IssueProcessingCompleted(id, TRUE, n, pdf)

\* Mutant of SaveFails: an exception of save is swallowed.
SaveFails_Swallowed(outcome) == FALSE

\* process_issue, lines 86 and 98: save(issue) is awaited inside the try, so
\* an exception it raises reaches the except handler.
SaveFails(outcome) == outcome = "raise"

\* process_issue, lines 85-103: await save(issue), then the terminal event.
SaveIssue(outcome, y) ==
    /\ pc = "save"
    /\ calls' = Append(calls, <<"save", outcome, Len(events)>>)
    /\ LET id == IssueIdValue(request.issue_numbers[i])
           b == Await(Bus, y)
       IN IF ~SaveFails(outcome)
          THEN /\ SetBus(PublishEvent(b, CompletionEvent(
                            id, downloaded_count, pdf_generated)))
               /\ renders_ok' = renders_ok + (IF pdf_generated THEN 1 ELSE 0)
               /\ Return(TRUE)
          ELSE /\ SetBus(PublishEvent(b, IssueProcessingFailed(id, "exception")))
               /\ UNCHANGED renders_ok
               /\ Return(FALSE)
    /\ UNCHANGED <<raised, request, session_id, i, issue, j, downloaded_count,
                   pdf_generated, result, handlers, processed, sleeps,
                   downloads_ok>>
    /\ UNCHANGED outsideCrawl

\* Mutant of NextPosition: a failed record ends the loop.
NextPosition_Break(k, success, n) == IF success THEN k + 1 ELSE n + 1

\* crawl_issues, line 51: the for loop goes on to the next entry of
\* issue_numbers whatever the record at position k came to.
NextPosition(k, success, n) == k + 1

\* crawl_issues, line 64: whether asyncio.sleep is awaited after the record
\* at position k of n.
SleepsAfter(k, n) == TRUE

\* crawl_issues, lines 63-64: the inter-record delay.  asyncio.sleep always
\* suspends, so the waiting handler tasks run.  The record is over:
\* process_issue's locals are gone and the observation window (events,
\* received, calls) starts again.
Sleep ==
    /\ pc = "sleep"
    /\ request_delay = "float"
    /\ LET n == Len(request.issue_numbers)
           b == Await(Bus, SleepsAfter(i, n))
       IN /\ sleeps' = IF SleepsAfter(i, n) THEN Append(sleeps, i) ELSE sleeps
          /\ events' = <<>>
          /\ pending' = b.pend
          /\ received' = [h \in DOMAIN b.recv |-> <<>>]
    /\ i' = NextPosition(i, ret = "true", Len(request.issue_numbers))
    /\ issue' = NoIssue
    /\ j' = 0
    /\ downloaded_count' = 0
    /\ pdf_generated' = FALSE
    /\ ret' = "none"
    /\ calls' = <<>>
    /\ pc' = "loop"
    /\ UNCHANGED <<raised, request, session_id, successful_count,
                   failed_count, result, handlers, processed, downloads_ok,
                   renders_ok>>
    /\ UNCHANGED outsideCrawl

\* crawl_issues, lines 74-80: the CrawlResult.
CrawlResult(total, ok, failed) ==
    [returned |-> TRUE,
     total_issues |-> total,
     successful_issues |-> ok,
     failed_issues |-> failed,
     attachments_downloaded |-> 0,
     pdfs_generated |-> ok]

\* crawl_issues, lines 70-91: after the loop.
CrawlIssuesReturn ==
    /\ pc = "loop"
    /\ i > Len(request.issue_numbers)
    /\ result' = CrawlResult(Len(request.issue_numbers), successful_count,
                             failed_count)
    /\ SetBus(PublishEvent(Bus, CrawlSessionCompleted(
                 session_id, Len(request.issue_numbers), successful_count)))
    /\ pc' = "returned"
    /\ UNCHANGED <<raised, request, session_id, i, successful_count,
                   failed_count, issue, j, downloaded_count, pdf_generated,
                   ret, handlers, calls, processed, sleeps, downloads_ok,
                   renders_ok>>
    /\ UNCHANGED outsideCrawl

FetchOutcomes == {"issue", "none", "raise"}
DownloadOutcomes == {"true", "false", "raise"}
PdfOutcomes == {"true", "true_nostat", "false", "raise"}
SaveOutcomes == {"ok", "raise"}

Crawl ==
    \/ CrawlIssuesInvalid
    \/ CrawlIssuesStart
    \/ ProcessIssueStart
    \/ \E o \in FetchOutcomes, n \in 0..MaxAttachments, y \in BOOLEAN :
          GetById(o, n, y)
    \/ \E o \in DownloadOutcomes, y \in BOOLEAN : DownloadAttachment(o, y)
    \/ \E o \in PdfOutcomes, y \in BOOLEAN : GeneratePdf(o, y)
    \/ \E o \in SaveOutcomes, y \in BOOLEAN : SaveIssue(o, y)
    \/ Sleep
    \/ CrawlIssuesReturn

Next ==
    \/ /\ pc = "new"
       /\ \E ids \in SeqsUpTo(IssueNumbers, MaxIssues), parent \in BOOLEAN :
             NewCrawlRequest(ids, parent)
    \/ Crawl

\* A request of the declared type List[str]; no handler is registered.
Spec == Init /\ [][Next]_vars

\* ------------------------------------------------- entries of any type
\* issue_numbers is not type-checked at run time: an entry that is not a
\* string passes CrawlRequest and validate_crawl_request, which look at
\* str(entry), and makes IssueId raise inside the loop.
AnyIssueNumbers == {ID100, INT7}

NextAnyIds ==
    \/ /\ pc = "new"
       /\ \E ids \in SeqsUpTo(AnyIssueNumbers, MaxIssues), parent \in BOOLEAN :
             NewCrawlRequest(ids, parent)
    \/ Crawl
    \/ IssueIdFails

SpecAnyIds == Init /\ [][NextAnyIds]_vars

\* ---------------------------------------------------------- cancellation
\* The task running crawl_issues is cancelled while it is suspended at an
\* await of process_issue (get_by_id, download_attachment, generate_pdf,
\* save) or at asyncio.sleep.  CancelledError is a BaseException: none of the
\* "except Exception" handlers (process_issue 98, _process_attachments 135,
\* _generate_pdf 170, crawl_issues 66 and 93) catches it and there is no
\* finally, so it leaves crawl_issues and nothing more is published.
Cancel ==
    /\ pc \in {"fetch", "attachments", "pdf", "save", "sleep"}
    /\ pc' = "raised"
    /\ raised' = "CancelledError"
    /\ UNCHANGED <<request, session_id, i, successful_count, failed_count,
                   issue, j, downloaded_count, pdf_generated, ret, result,
                   handlers, pending, events, received, calls, processed,
                   sleeps, downloads_ok, renders_ok>>
    /\ UNCHANGED outsideCrawl

NextCancel ==
    \/ Next
    \/ Cancel

SpecCancel == Init /\ [][NextCancel]_vars

\* ------------------------------------------------------ the request delay
\* What request_delay can hold: a number, or a string that
\* _update_dataclass_from_dict took from the JSON file as it is.
DelayValues == {"float", "str"}

\* ConfigurationManager._load_from_file: setattr without a type check.
LoadFromFile(d) ==
    /\ pc = "new"
    /\ request_delay' = d
    /\ UNCHANGED outsideConfig

\* crawl_issues, lines 64-68: asyncio.sleep raises TypeError for a delay that
\* is not a number, before it suspends.  The await is inside the try of the
\* loop body, after the counters were updated, so the handler adds one to
\* failed_count and the loop goes on.
SleepRaises ==
    /\ pc = "sleep"
    /\ request_delay # "float"
    /\ failed_count' = failed_count + 1
    /\ events' = <<>>
    /\ received' = [h \in DOMAIN received |-> <<>>]
    /\ i' = i + 1
    /\ issue' = NoIssue
    /\ j' = 0
    /\ downloaded_count' = 0
    /\ pdf_generated' = FALSE
    /\ ret' = "none"
    /\ calls' = <<>>
    /\ pc' = "loop"
    /\ UNCHANGED <<raised, request, session_id, successful_count, result,
                   handlers, pending, processed, sleeps, downloads_ok,
                   renders_ok>>
    /\ UNCHANGED outsideCrawl

NextDelay ==
    \/ \E d \in DelayValues : LoadFromFile(d)
    \/ NextAnyIds
    \/ SleepRaises

SpecDelay == Init /\ [][NextDelay]_vars

\* ------------------------------------------------------ event handlers
HandlerKinds == {"plain", "coroutine"}

\* IssueCrawlerService.add_event_handler
AddEventHandler(kind) ==
    /\ pc = "new"
    /\ Len(handlers) < MaxHandlers
    /\ handlers' = Append(handlers, kind)
    /\ received' = Append(received, <<>>)
    /\ UNCHANGED <<pc, raised, request, session_id, i, successful_count,
                   failed_count, issue, j, downloaded_count, pdf_generated,
                   ret, result, pending, events, calls, processed, sleeps,
                   downloads_ok, renders_ok>>
    /\ UNCHANGED outsideCrawl

\* The batches ID100, ID101, ID100, ... of every length up to MaxIssues.
Alternating(n) == [k \in 1..n |-> IF k % 2 = 1 THEN ID100 ELSE ID101]

NextHandlers ==
    \/ \E kind \in HandlerKinds : AddEventHandler(kind)
    \/ \E n \in 1..MaxIssues, parent \in BOOLEAN :
          NewCrawlRequest(Alternating(n), parent)
    \/ Crawl

SpecHandlers == Init /\ [][NextHandlers]_vars

\* ------------------------------------------------------ the loop ends
\* crawl_issues has returned and its caller ends the loop without another
\* await, as asyncio.run(service.crawl_issues(request)) does.  The tasks
\* _publish_event created last get the loop's final iteration: a handler
\* that does not suspend finishes in it, one that awaits is cancelled at its
\* await and never finishes.
LoopShutdown ==
    /\ pc = "returned"
    /\ pc' = "closed"
    /\ received' = RunTasks(received,
                     SelectSeq(pending, LAMBDA t : handlers[t[1]] = "coroutine"))
    /\ pending' = <<>>
    /\ UNCHANGED <<raised, request, session_id, i, successful_count,
                   failed_count, issue, j, downloaded_count, pdf_generated,
                   ret, result, handlers, events, calls, processed, sleeps,
                   downloads_ok, renders_ok>>
    /\ UNCHANGED outsideCrawl

NextShutdown ==
    \/ \E kind \in HandlerKinds \cup CoroutineKinds : AddEventHandler(kind)
    \/ \E n \in 1..MaxIssues, parent \in BOOLEAN :
          NewCrawlRequest(Alternating(n), parent)
    \/ Crawl
    \/ LoopShutdown

SpecShutdown == Init /\ [][NextShutdown]_vars

\* ================================================================ EventBus
MaxRegistrations == 3

BusEventTypes == {"IssueProcessingStarted", "CrawlSessionStarted"}
\* Two EventHandler objects: handle() of h1 returns, handle() of h2 raises
\* an Exception, every time.  The lists hold them in every arrangement, so
\* a publish meets every pattern of returning and raising handlers.
BusHandlers == {"h1", "h2"}

\* self._handlers[event_type], the empty list where publish finds no key.
HandlersFor(t) == IF t \in DOMAIN bus_handlers THEN bus_handlers[t] ELSE <<>>

BusOp(op, t, h) == [op |-> op, type |-> t, handler |-> h]

\* EventBus.subscribe
Subscribe(t, h) ==
    /\ Len(HandlersFor(t)) < MaxRegistrations
    /\ bus_handlers' = [u \in DOMAIN bus_handlers \cup {t} |->
                           IF u = t THEN Append(HandlersFor(t), h)
                           ELSE bus_handlers[u]]
    /\ invoked' = <<>>
    /\ bus_raised' = "none"
    /\ last_op' = BusOp("subscribe", t, h)
    /\ UNCHANGED <<global_handlers, crawlVars, nameVars, entityVars,
                   overlapVars,
                   valueVars, configVars,
                   storageVars,
                   pdfVars,
                   publishVars,
                   statVars,
                   legacyVars>>

\* EventBus.subscribe_all
SubscribeAll(h) ==
    /\ Len(global_handlers) < MaxRegistrations
    /\ global_handlers' = Append(global_handlers, h)
    /\ invoked' = <<>>
    /\ bus_raised' = "none"
    /\ last_op' = BusOp("subscribe_all", "none", h)
    /\ UNCHANGED <<bus_handlers, crawlVars, nameVars, entityVars,
                   overlapVars,
                   valueVars, configVars,
                   storageVars,
                   pdfVars,
                   publishVars,
                   statVars,
                   legacyVars>>

\* Whether h is in the list s.
Registered(s, h) == \E k \in 1..Len(s) : s[k] = h

\* The list without its element at position k.
RemoveAt(s, k) == SubSeq(s, 1, k - 1) \o SubSeq(s, k + 1, Len(s))

\* Mutant of FirstIndex: the last occurrence is found.
FirstIndex_Last(s, h) ==
    CHOOSE k \in 1..Len(s) : s[k] = h /\ \A m \in (k + 1)..Len(s) : s[m] # h

\* list.remove(h) looks for h from the front: the position of its first
\* occurrence in s.
FirstIndex(s, h) ==
    CHOOSE k \in 1..Len(s) : s[k] = h /\ \A m \in 1..(k - 1) : s[m] # h

\* Mutant of ListRemove: the position of an absent element is taken to be
\* -1, which in Python is the last position.
ListRemove_LastWhenAbsent(s, h) ==
    IF \E k \in 1..Len(s) : s[k] = h
    THEN [list |-> RemoveAt(s, CHOOSE k \in 1..Len(s) :
                                  s[k] = h /\ \A m \in 1..(k - 1) : s[m] # h),
          raised |-> "none"]
    ELSE [list |-> SubSeq(s, 1, Len(s) - 1), raised |-> "none"]

\* list.remove(h): the first occurrence goes, ValueError when there is none.
ListRemove(s, h) ==
    IF \E k \in 1..Len(s) : s[k] = h
    THEN [list |-> RemoveAt(s, FirstIndex(s, h)), raised |-> "none"]
    ELSE [list |-> s, raised |-> "ValueError"]

\* try: ... except <caught>: pass
Except(exc, caught) == IF exc \in caught THEN "none" ELSE exc

\* EventBus.unsubscribe
Unsubscribe(t, h) ==
    /\ IF t \in DOMAIN bus_handlers
       THEN LET r == ListRemove(bus_handlers[t], h)
            IN /\ bus_handlers' = [bus_handlers EXCEPT ![t] = r.list]
               /\ bus_raised' = Except(r.raised, {"ValueError"})
       ELSE /\ UNCHANGED bus_handlers
            /\ bus_raised' = "none"
    /\ invoked' = <<>>
    /\ last_op' = BusOp("unsubscribe", t, h)
    /\ UNCHANGED <<global_handlers, crawlVars, nameVars, entityVars,
                   overlapVars,
                   valueVars, configVars,
                   storageVars,
                   pdfVars,
                   publishVars,
                   statVars,
                   legacyVars>>

\* EventBus.unsubscribe_all
UnsubscribeAll(h) ==
    /\ LET r == ListRemove(global_handlers, h)
       IN /\ global_handlers' = r.list
          /\ bus_raised' = Except(r.raised, {"ValueError"})
    /\ invoked' = <<>>
    /\ last_op' = BusOp("unsubscribe_all", "none", h)
    /\ UNCHANGED <<bus_handlers, crawlVars, nameVars, entityVars,
                   overlapVars,
                   valueVars, configVars,
                   storageVars,
                   pdfVars,
                   publishVars,
                   statVars,
                   legacyVars>>

\* Mutant of Deliveries: the global handlers come first.
Deliveries_GlobalFirst(t) == global_handlers \o HandlersFor(t)

\* publish, lines 138-151: the handlers of the event's type, then the
\* global handlers.
Deliveries(t) == HandlersFor(t) \o global_handlers

\* Mutant of PublishRun: the first exception ends the publish.
PublishRun_Unguarded(hs, outcome) ==
    LET bad == {k \in 1..Len(hs) : outcome[k] = "raise"}
        stop == IF bad = {} THEN Len(hs)
                ELSE CHOOSE k \in bad : \A m \in bad : k <= m
    IN [log |-> [k \in 1..stop |-> [handler |-> hs[k], outcome |-> outcome[k]]],
        raised |-> IF bad = {} THEN "none" ELSE "Exception"]

\* publish, lines 140-151: handle() is awaited for each handler in turn
\* inside its own try/except Exception; outcome[k] is what the k-th call
\* does.
PublishRun(hs, outcome) ==
    [log |-> [k \in 1..Len(hs) |-> [handler |-> hs[k], outcome |-> outcome[k]]],
     raised |-> "none"]

\* What await handler.handle(event) does.
HandleOutcome(h) == IF h = "h2" THEN "raise" ELSE "ok"

\* EventBus.publish
Publish(t) ==
    /\ LET hs == Deliveries(t)
           r == PublishRun(hs, [k \in 1..Len(hs) |-> HandleOutcome(hs[k])])
       IN /\ invoked' = r.log
          /\ bus_raised' = r.raised
    /\ last_op' = BusOp("publish", t, "none")
    /\ UNCHANGED <<bus_handlers, global_handlers, crawlVars, nameVars,
                   entityVars, overlapVars,
                   valueVars, configVars,
                   storageVars,
                   pdfVars,
                   publishVars,
                   statVars,
                   legacyVars>>

\* EventBus.clear
Clear ==
    /\ bus_handlers' = <<>>
    /\ global_handlers' = <<>>
    /\ invoked' = <<>>
    /\ bus_raised' = "none"
    /\ last_op' = BusOp("clear", "none", "none")
    /\ UNCHANGED <<crawlVars, nameVars, entityVars, overlapVars,
                   valueVars, configVars,
                   storageVars,
                   pdfVars,
                   publishVars,
                   statVars,
                   legacyVars>>

NextBus ==
    \/ \E t \in BusEventTypes, h \in BusHandlers : Subscribe(t, h)
    \/ \E h \in BusHandlers : SubscribeAll(h)
    \/ \E t \in BusEventTypes, h \in BusHandlers : Unsubscribe(t, h)
    \/ \E h \in BusHandlers : UnsubscribeAll(h)
    \/ \E t \in BusEventTypes : Publish(t)
    \/ Clear

SpecBus == Init /\ [][NextBus]_vars

\* ======================================================= file names
\* _sanitize_filename, line 185: the longest name it lets through.
MaxFilenameLength == 100
MaxSuffix == 3

IllegalChars == {"<", ">", ":", "\"", "/", "\\", "|", "?", "*"}
UNNAMED_FILE == <<"u", "n", "n", "a", "m", "e", "d", "_", "f", "i", "l", "e">>

\* Mutant of ReplaceIllegal: the illegal characters are dropped.
ReplaceIllegal_Dropped(s) == SelectSeq(s, LAMBDA c : c \notin IllegalChars)

\* re.sub(r'[<>:"/\\|?*]', '_', filename)
ReplaceIllegal(s) ==
    [k \in 1..Len(s) |-> IF s[k] \in IllegalChars THEN "_" ELSE s[k]]

RECURSIVE lstripChars(_, _)
lstripChars(s, chars) ==
    IF s # <<>> /\ Head(s) \in chars THEN lstripChars(Tail(s), chars) ELSE s

RECURSIVE rstripChars(_, _)
rstripChars(s, chars) ==
    IF s # <<>> /\ s[Len(s)] \in chars
    THEN rstripChars(SubSeq(s, 1, Len(s) - 1), chars)
    ELSE s

\* str.strip(chars)
stripChars(s, chars) == rstripChars(lstripChars(s, chars), chars)

\* filename[:100] when len(filename) > 100
Truncate(s) ==
    IF Len(s) > MaxFilenameLength THEN SubSeq(s, 1, MaxFilenameLength) ELSE s

\* IssueCrawlerService._sanitize_filename
sanitize_filename(s) ==
    LET cut == Truncate(stripChars(ReplaceIllegal(s), {" ", "."}))
    IN IF cut = <<>> THEN UNNAMED_FILE ELSE cut

Repeat(c, n) == [k \in 1..n |-> c]

\* The titles tried: a run of one character, as long as the limit or just
\* below it or absent, followed by every short string of plain, strippable
\* and illegal characters.
NameChars == {"a", " ", ".", "?", "/"}
RunChars == {"a", "?"}
RunLengths == {0, MaxFilenameLength - 2, MaxFilenameLength - 1,
               MaxFilenameLength}
Filenames ==
    {Repeat(c, n) \o t : c \in RunChars, n \in RunLengths,
                        t \in SeqsUpTo(NameChars, MaxSuffix)}

InitNames ==
    /\ InitCrawl
    /\ InitBus
    /\ InitEntity
    /\ InitOverlap
    /\ InitValue
    /\ InitConfig
    /\ InitStorage
    /\ InitPdf
    /\ InitPublish
    /\ InitStat
    /\ InitLegacy
    /\ filename \in Filenames
    /\ sanitized = NotCalled
    /\ resanitized = NotCalled

\* safe_title = self._sanitize_filename(issue.title)
Sanitize ==
    /\ ~sanitized.called
    /\ sanitized' = [called |-> TRUE, value |-> sanitize_filename(filename)]
    /\ UNCHANGED <<filename, resanitized, crawlVars, busVars, entityVars,
                   overlapVars,
                   valueVars, configVars,
                   storageVars,
                   pdfVars,
                   publishVars,
                   statVars,
                   legacyVars>>

\* _sanitize_filename applied to what it returned.
SanitizeAgain ==
    /\ sanitized.called
    /\ ~resanitized.called
    /\ resanitized' = [called |-> TRUE,
                       value |-> sanitize_filename(sanitized.value)]
    /\ UNCHANGED <<filename, sanitized, crawlVars, busVars, entityVars,
                   overlapVars,
                   valueVars, configVars,
                   storageVars,
                   pdfVars,
                   publishVars,
                   statVars,
                   legacyVars>>

NextNames ==
    \/ Sanitize
    \/ SanitizeAgain

SpecNames == InitNames /\ [][NextNames]_vars

\* ============================================================= Issue
AttachmentFilenames == {"a.txt", "b.txt", "c.txt"}
AttachmentUrls == {"http://host/1", "http://host/2"}

\* Attachment(filename, url): a dataclass, equal when every field is equal.
Attachment(f, u) == [filename |-> f, url |-> u]

\* Issue.add_attachment
AddAttachment(a) ==
    /\ attachments' = IF Registered(attachments, a) THEN attachments
                      ELSE Append(attachments, a)
    /\ removed' = "none"
    /\ UNCHANGED <<crawlVars, busVars, nameVars, overlapVars,
                   valueVars, configVars,
                   storageVars,
                   pdfVars,
                   publishVars,
                   statVars,
                   legacyVars>>

\* Issue.remove_attachment
RemoveAttachment(f) ==
    /\ IF \E k \in 1..Len(attachments) : attachments[k].filename = f
       THEN /\ attachments' =
                 RemoveAt(attachments,
                          CHOOSE k \in 1..Len(attachments) :
                             /\ attachments[k].filename = f
                             /\ \A m \in 1..(k - 1) :
                                   attachments[m].filename # f)
            /\ removed' = "true"
       ELSE /\ UNCHANGED attachments
            /\ removed' = "false"
    /\ UNCHANGED <<crawlVars, busVars, nameVars, overlapVars,
                   valueVars, configVars,
                   storageVars,
                   pdfVars,
                   publishVars,
                   statVars,
                   legacyVars>>

NextIssue ==
    \/ \E f \in AttachmentFilenames, u \in AttachmentUrls :
          AddAttachment(Attachment(f, u))
    \/ \E f \in AttachmentFilenames : RemoveAttachment(f)

SpecIssue == Init /\ [][NextIssue]_vars

\* ================================================= overlapping sessions
MaxOverlapIssues == 2
MaxClock == 2

\* f"crawl_{int(time.time())}"
SessionId(t) == <<"crawl", t>>

\* Mutant of CounterOwner: the counters are attributes of the service.
CounterOwner_Shared(c) == 1

\* crawl_issues, lines 46-47: successful_count and failed_count are locals
\* of the call.
CounterOwner(c) == c

\* What the loop leaves alone in an overlapping call.
overlapFrame ==
    <<pc, raised, request, i, successful_count, failed_count, issue, j,
      downloaded_count, pdf_generated, ret, result, handlers, pending,
      events, received, calls, processed, sleeps, downloads_ok, renders_ok,
      busVars, nameVars, entityVars, valueVars, configVars,
                   storageVars,
                   pdfVars,
                   publishVars,
                   statVars,
                   legacyVars>>

\* crawl_issues, lines 33-56, for a valid request of n records: up to the
\* first await of the first process_issue call.
OverlapStart(c, n) ==
    /\ call[c].pc = "idle"
    /\ session_id' = SessionId(now)
    /\ LET started == [call EXCEPT ![c] =
                          [NoCall EXCEPT !.pc = "processing", !.total = n,
                                         !.i = 1,
                                         !.started_id = SessionId(now)]]
       IN call' = [started EXCEPT ![CounterOwner(c)].successful_count = 0,
                                  ![CounterOwner(c)].failed_count = 0]
    /\ UNCHANGED <<now, overlapFrame>>

\* crawl_issues, lines 54-64: process_issue comes back and the call
\* suspends in asyncio.sleep.
OverlapProcessed(c, success) ==
    /\ call[c].pc = "processing"
    /\ LET o == CounterOwner(c)
           own == [call EXCEPT ![c].pc = "sleep",
                               ![c].own_ok = IF success THEN @ + 1 ELSE @,
                               ![c].own_failed = IF success THEN @ ELSE @ + 1]
       IN call' = [own EXCEPT
                     ![o].successful_count = IF success THEN @ + 1 ELSE @,
                     ![o].failed_count = IF success THEN @ ELSE @ + 1]
    /\ UNCHANGED <<now, session_id, overlapFrame>>

\* crawl_issues, lines 51-91: the sleep is over; the next record, or the
\* CrawlResult and CrawlSessionCompleted(self._session_id, ...).
OverlapWake(c) ==
    /\ call[c].pc = "sleep"
    /\ LET o == CounterOwner(c)
       IN call' = IF call[c].i < call[c].total
                  THEN [call EXCEPT ![c].pc = "processing", ![c].i = @ + 1]
                  ELSE [call EXCEPT
                          ![c].pc = "returned",
                          ![c].i = @ + 1,
                          ![c].completed_id = session_id,
                          ![c].result = CrawlResult(call[c].total,
                                                    call[o].successful_count,
                                                    call[o].failed_count)]
    /\ UNCHANGED <<now, session_id, overlapFrame>>

\* A second goes by.
Tick ==
    /\ now < MaxClock
    /\ now' = now + 1
    /\ UNCHANGED <<call, session_id, overlapFrame>>

NextOverlap ==
    \/ \E c \in Calls, n \in 1..MaxOverlapIssues : OverlapStart(c, n)
    \/ \E c \in Calls, success \in BOOLEAN : OverlapProcessed(c, success)
    \/ \E c \in Calls : OverlapWake(c)
    \/ Tick

SpecOverlap == Init /\ [][NextOverlap]_vars

\* ================================== process_issue as a function
\* What the repositories do for one record: get_by_id ("issue", "none" or
\* "raise"), one download per attachment ("true" or "failed"), generate_pdf
\* ("true", "true_nostat" or "failed") and save ("ok" or "raise").
RecordOutcomes ==
    {[fetch |-> f, downloads |-> <<>>, pdf |-> "failed", save |-> "ok"] :
        f \in {"none", "raise"}}
    \cup
    [fetch : {"issue"},
     downloads : SeqsUpTo({"true", "failed"}, MaxAttachments),
     pdf : {"true", "true_nostat", "failed"},
     save : {"ok", "raise"}]

\* _process_attachments, lines 109-136: the events of the attachments from
\* position k on.
RECURSIVE AttachmentEvents(_, _, _)
AttachmentEvents(id, downloads, k) ==
    IF k > Len(downloads) THEN <<>>
    ELSE <<AttachmentDownloadStarted(id, k)>>
         \o (IF downloads[k] = "true"
             THEN <<AttachmentDownloadCompleted(id, k)>> ELSE <<>>)
         \o AttachmentEvents(id, downloads, k + 1)

\* _process_attachments: downloaded_count
DownloadedCount(downloads) ==
    Cardinality({k \in 1..Len(downloads) : downloads[k] = "true"})

\* process_issue, lines 53-103: what it returns and the events it
\* publishes, for the outcomes o of the repositories.
process_issue(id, o) ==
    CASE o.fetch = "raise" ->
           [ret |-> FALSE,
            events |-> <<IssueProcessingStarted(id),
                         IssueProcessingFailed(id, "exception")>>]
      [] o.fetch = "none" ->
           [ret |-> FALSE,
            events |-> <<IssueProcessingStarted(id),
                         IssueProcessingFailed(id, "not found")>>]
      [] OTHER ->
           [ret |-> o.save = "ok",
            events |->
               <<IssueProcessingStarted(id)>>
               \o AttachmentEvents(id, o.downloads, 1)
               \o <<PdfGenerationStarted(id)>>
               \o (IF o.pdf = "true"
                   THEN <<PdfGenerationCompleted(id)>> ELSE <<>>)
               \o (IF o.save = "ok"
                   THEN <<CompletionEvent(id, DownloadedCount(o.downloads),
                                          o.pdf = "true")>>
                   ELSE <<IssueProcessingFailed(id, "exception")>>)]

\* ====================================== StatisticsEventHandler, main.py
MaxStatIssues == 2

\* Mutant of handle: IssueProcessingFailed is not counted.
handle_FailedIgnored(st, e) ==
    CASE e.type = "IssueProcessingStarted" ->
           [st EXCEPT !.issues_processed = @ + 1]
      [] e.type = "IssueProcessingCompleted" ->
           IF e.success THEN [st EXCEPT !.issues_successful = @ + 1] ELSE st
      [] e.type = "AttachmentDownloadCompleted" ->
           [st EXCEPT !.attachments_downloaded = @ + 1]
      [] e.type = "PdfGenerationCompleted" ->
           [st EXCEPT !.pdfs_generated = @ + 1]
      [] e.type = "CrawlSessionStarted" ->
           [st EXCEPT !.sessions_started = @ + 1]
      [] e.type = "CrawlSessionCompleted" ->
           [st EXCEPT !.sessions_completed = @ + 1]
      [] OTHER -> st

\* StatisticsEventHandler.handle, lines 73-90
handle(st, e) ==
    CASE e.type = "IssueProcessingStarted" ->
           [st EXCEPT !.issues_processed = @ + 1]
      [] e.type = "IssueProcessingCompleted" ->
           IF e.success THEN [st EXCEPT !.issues_successful = @ + 1] ELSE st
      [] e.type = "IssueProcessingFailed" ->
           [st EXCEPT !.issues_failed = @ + 1]
      [] e.type = "AttachmentDownloadCompleted" ->
           [st EXCEPT !.attachments_downloaded = @ + 1]
      [] e.type = "PdfGenerationCompleted" ->
           [st EXCEPT !.pdfs_generated = @ + 1]
      [] e.type = "CrawlSessionStarted" ->
           [st EXCEPT !.sessions_started = @ + 1]
      [] e.type = "CrawlSessionCompleted" ->
           [st EXCEPT !.sessions_completed = @ + 1]
      [] OTHER -> st

\* handle awaited for each event of evs in turn.
RECURSIVE HandleAll(_, _)
HandleAll(st, evs) ==
    IF evs = <<>> THEN st ELSE HandleAll(handle(st, Head(evs)), Tail(evs))

\* The service calls self._publish_event(e) for each event of evs, without
\* await (domain 66-94, application 43 and 89).  With the method of the
\* class and the StatisticsEventHandler added by add_event_handler, handle
\* runs as a task for each event.  With main.py's event_publisher in its
\* place the call only makes a coroutine, which nothing awaits:
\* event_bus.publish does not run and no subscribed handler is reached.
PublishAll(evs) ==
    CASE wiring = "event_publisher" ->
           /\ unawaited' = unawaited + Len(evs)
           /\ UNCHANGED <<stats, tally>>
      [] wiring = "handler" ->
           /\ stats' = HandleAll(stats, evs)
           /\ tally' = tally \o [k \in 1..Len(evs) |-> evs[k].type]
           /\ UNCHANGED unawaited
      [] OTHER -> UNCHANGED <<unawaited, stats, tally>>

\* service.add_event_handler(stats_handler)
AddStatisticsHandler ==
    /\ stat_op.op = "init"
    /\ wiring = "method"
    /\ wiring' = "handler"
    /\ UNCHANGED <<unawaited, stats, tally, stat_op>>
    /\ UNCHANGED outsideStat

\* main.py, lines 36-38 and 71-74: the handlers are subscribed on event_bus
\* and the service's _publish_event becomes the coroutine function
\* event_publisher.
MainWires ==
    /\ stat_op.op = "init"
    /\ wiring = "method"
    /\ wiring' = "event_publisher"
    /\ UNCHANGED <<unawaited, stats, tally, stat_op>>
    /\ UNCHANGED outsideStat

\* crawl_issues, lines 38-43, for a request of n identifiers.
SessionStarts(n) ==
    /\ stat_op.op \in {"init", "reset"}
    /\ PublishAll(<<CrawlSessionStarted("crawl_t", n)>>)
    /\ stat_op' = [op |-> "session", total |-> n, done |-> 0, ok |-> 0,
                   again |-> stat_op.op = "reset"]
    /\ UNCHANGED wiring
    /\ UNCHANGED outsideStat

\* crawl_issues, lines 51-64: one process_issue call of the loop.
SessionRecord(o) ==
    /\ stat_op.op = "session"
    /\ stat_op.done < stat_op.total
    /\ LET r == process_issue(IssueIdValue(ID100), o)
       IN /\ PublishAll(r.events)
          /\ stat_op' = [stat_op EXCEPT !.done = @ + 1,
                                        !.ok = IF r.ret THEN @ + 1 ELSE @]
    /\ UNCHANGED wiring
    /\ UNCHANGED outsideStat

\* crawl_issues, lines 82-91
SessionCompletes ==
    /\ stat_op.op = "session"
    /\ stat_op.done = stat_op.total
    /\ PublishAll(<<CrawlSessionCompleted("crawl_t", stat_op.total,
                                          stat_op.ok)>>)
    /\ stat_op' = [op |-> "returned", total |-> stat_op.total,
                   again |-> stat_op.again]
    /\ UNCHANGED wiring
    /\ UNCHANGED outsideStat

\* StatisticsEventHandler.reset_statistics, lines 96-99
ResetStatistics ==
    /\ stat_op.op = "returned"
    /\ ~stat_op.again
    /\ stats' = [k \in DOMAIN stats |-> 0]
    /\ tally' = <<>>
    /\ stat_op' = [op |-> "reset"]
    /\ UNCHANGED <<wiring, unawaited>>
    /\ UNCHANGED outsideStat

NextStat ==
    \/ AddStatisticsHandler
    \/ MainWires
    \/ \E n \in 1..MaxStatIssues : SessionStarts(n)
    \/ \E o \in RecordOutcomes : SessionRecord(o)
    \/ SessionCompletes
    \/ ResetStatistics

SpecStat == Init /\ [][NextStat]_vars

\* ========================================= RedmineCrawler, the legacy
MaxBatch == 3

\* The outcomes both crawlers have: the page, each attachment, the document.
\* The legacy crawler has no record repository to save to.
SharedOutcomes == {o \in RecordOutcomes : o.save = "ok"}

\* RedmineCrawler._generate_pdf, lines 207-255: True when pdfkit wrote a
\* file whose size can be read and is positive.
LegacyGeneratePdf(o) == o.pdf = "true"

\* RedmineCrawler.crawl_single_issue, lines 98-151: False when the request
\* raises, when the page is a login or error page, and when _generate_pdf
\* returns False; _download_attachments only counts.
crawl_single_issue(o) ==
    CASE o.fetch = "raise" -> FALSE
      [] o.fetch = "none" -> FALSE
      [] OTHER -> LegacyGeneratePdf(o)

\* One record of a batch, with the same outcomes for both crawlers:
\* RedmineCrawler.crawl_issues lines 78-84 counts success_count, the layered
\* crawl_issues lines 54-61 counts successful_count.
CrawlBoth(o) ==
    /\ batch.done < MaxBatch
    /\ batch' = [done |-> batch.done + 1,
                 record |-> o,
                 success_count |->
                     batch.success_count
                       + (IF crawl_single_issue(o) THEN 1 ELSE 0),
                 successful_count |->
                     batch.successful_count
                       + (IF process_issue(IssueIdValue(ID100), o).ret
                          THEN 1 ELSE 0)]
    /\ UNCHANGED outsideLegacy

NextLegacy == \E o \in SharedOutcomes : CrawlBoth(o)

SpecLegacy == Init /\ [][NextLegacy]_vars

\* ============================================ _publish_event by itself
MaxEventHandlers == 2
MaxPublished == 2

\* A handler: handle is a plain function or a coroutine function, and it
\* returns or raises.
EventHandlers == [kind : {"plain", "coroutine"}, raises : BOOLEAN]

\* add_event_handler, lines 31-33
AppendEventHandler(h) ==
    /\ published = 0
    /\ Len(event_handlers) < MaxEventHandlers
    /\ event_handlers' = Append(event_handlers, h)
    /\ UNCHANGED <<loop_tasks, delivered, published, escaped>>
    /\ UNCHANGED outsidePublish

\* _publish_event, lines 38-51, from the handler at position h on, with a
\* running loop: handler.handle(event) of a coroutine function only makes
\* the coroutine, which create_task puts on the loop; a plain handle runs
\* at once and what it raises is caught at line 50.
RECURSIVE PublishFrom(_, _, _)
PublishFrom(st, e, h) ==
    IF h > Len(event_handlers) THEN st
    ELSE IF event_handlers[h].kind = "coroutine"
         THEN PublishFrom([st EXCEPT !.tasks = Append(@, <<h, e>>)], e, h + 1)
         ELSE PublishFrom([st EXCEPT !.delivered = Append(@, <<h, e>>)],
                          e, h + 1)

\* A coroutine of the loop calls _publish_event with its next event.
PublishOne ==
    /\ published < MaxPublished
    /\ LET st == PublishFrom([tasks |-> loop_tasks, delivered |-> delivered],
                             published + 1, 1)
       IN /\ loop_tasks' = st.tasks
          /\ delivered' = st.delivered
    /\ published' = published + 1
    /\ escaped' = FALSE
    /\ UNCHANGED event_handlers
    /\ UNCHANGED outsidePublish

\* The publishing coroutine suspends: the loop runs the waiting tasks,
\* oldest first.  An exception of a handler stays in its task.
LoopRunsTasks ==
    /\ loop_tasks # <<>>
    /\ delivered' = delivered \o loop_tasks
    /\ loop_tasks' = <<>>
    /\ UNCHANGED <<event_handlers, published, escaped>>
    /\ UNCHANGED outsidePublish

NextPublish ==
    \/ \E h \in EventHandlers : AppendEventHandler(h)
    \/ PublishOne
    \/ LoopRunsTasks

SpecPublish == Init /\ [][NextPublish]_vars

\* ==================================================== document names
ISSUE_ == <<"i", "s", "s", "u", "e", "_">>
DOT_PDF == <<".", "p", "d", "f">>

\* Mutant of PdfFilename: the title is used as it is.
PdfFilename_Unsanitized(id, title) ==
    IF title # <<>> THEN id \o <<"_">> \o title \o DOT_PDF
    ELSE ISSUE_ \o id \o DOT_PDF

\* _generate_pdf, lines 150-154: f"{id}_{safe_title}.pdf" when issue.title
\* is truthy, f"issue_{id}.pdf" otherwise.
PdfFilename(id, title) ==
    IF title # <<>> THEN id \o <<"_">> \o sanitize_filename(title) \o DOT_PDF
    ELSE ISSUE_ \o id \o DOT_PDF

\* A fetched record reaches _generate_pdf: any of the titles, Issue.title's
\* default "" among them.
InitPdfNames ==
    /\ InitCrawl
    /\ InitBus
    /\ InitName
    /\ InitEntity
    /\ InitOverlap
    /\ InitValue
    /\ InitConfig
    /\ InitStorage
    /\ InitPublish
    /\ InitStat
    /\ InitLegacy
    /\ pdf_issue \in [id : {IssueIdValue(ID100), IssueIdValue(ID101)},
                       title : Filenames]
    /\ pdf_filename = NotCalled

\* _generate_pdf, lines 146-156
NamePdf ==
    /\ ~pdf_filename.called
    /\ pdf_filename' = [called |-> TRUE,
                        value |-> PdfFilename(pdf_issue.id, pdf_issue.title)]
    /\ UNCHANGED pdf_issue
    /\ UNCHANGED outsidePdf

NextPdfNames == NamePdf

SpecPdfNames == InitPdfNames /\ [][NextPdfNames]_vars

\* ================================================ attachment storage
\* config.security.max_file_size, scaled down from 100 MB, and the largest
\* content that is tried.
MaxFileSize == 2
MaxContent == 3

\* config.security.allowed_file_extensions, abridged to four of its entries.
allowed_file_extensions ==
    {<<".", "p", "d", "f">>, <<".", "p", "n", "g">>, <<".", "t", "x", "t">>,
     <<".", "z", "i", "p">>}

\* The suffixes of the destination paths that are tried: allowed, allowed
\* in upper case, not allowed, and none.
Suffixes ==
    {<<".", "p", "d", "f">>, <<".", "P", "D", "F">>, <<".", "e", "x", "e">>,
     <<>>}

\* str.lower() on the characters that occur.
LowerChar(c) ==
    CASE c = "P" -> "p"
      [] c = "D" -> "d"
      [] c = "F" -> "f"
      [] OTHER -> c

\* FilePath.get_extension: Path(self.path).suffix.lower()
get_extension(suffix) == [k \in 1..Len(suffix) |-> LowerChar(suffix[k])]

\* Mutant of Refused: the extension is not looked at.
Refused_SizeOnly(len, suffix) == len > MaxFileSize

\* save_attachment, lines 49-57: the two checks that return False.
Refused(len, suffix) ==
    \/ len > MaxFileSize
    \/ get_extension(suffix) \notin allowed_file_extensions

\* save_attachment, lines 45-70, on content of len bytes for a path with the
\* given suffix; write is what _write_file_sync does: "ok", or "raise"
\* after the file was opened for writing (which leaves it empty), or
\* "denied" when it cannot be opened.
save_attachment(len, suffix, write) ==
    /\ save_call' = [called |-> TRUE, len |-> len, suffix |-> suffix,
                     write |-> write,
                     ret |-> ~Refused(len, suffix) /\ write = "ok"]
    /\ IF Refused(len, suffix)
       THEN UNCHANGED <<att_size, file>>
       ELSE /\ file' = CASE write = "ok" -> {len}
                          [] write = "raise" -> {0}
                          [] OTHER -> file
            /\ att_size' = IF write = "ok" THEN {len} ELSE att_size
    /\ UNCHANGED outsideStorage

WriteOutcomes == {"ok", "raise", "denied"}

NextStorage ==
    \E len \in 0..MaxContent, suffix \in Suffixes, write \in WriteOutcomes :
        save_attachment(len, suffix, write)

SpecStorage == Init /\ [][NextStorage]_vars

\* ====================================================== value objects
PADDED == StrEntry(<<" ", "1", "0", "0", " ">>)

IdArguments == IssueNumbers \cup {PADDED, INT7}

\* IssueId(x)
ConstructIssueId(x) ==
    /\ arg' = x
    /\ made' = IF IssueIdRaises(x)
               THEN [kind |-> "IssueId", raised |-> IssueIdException(x),
                     value |-> <<>>]
               ELSE [kind |-> "IssueId", raised |-> "none",
                     value |-> IssueIdValue(x)]
    /\ UNCHANGED <<crawlVars, busVars, nameVars, entityVars, overlapVars,
                   configVars,
                   storageVars,
                   pdfVars,
                   publishVars,
                   statVars,
                   legacyVars>>

\* CrawlRequest(ids, output_directory)
ConstructCrawlRequest(ids) ==
    /\ arg' = ids
    /\ made' = IF CrawlRequestRaises(ids)
               THEN [kind |-> "CrawlRequest", raised |-> "ValueError",
                     value |-> NoRequest]
               ELSE [kind |-> "CrawlRequest", raised |-> "none",
                     value |-> [issue_numbers |-> ids, parent_exists |-> TRUE]]
    /\ UNCHANGED <<crawlVars, busVars, nameVars, entityVars, overlapVars,
                   configVars,
                   storageVars,
                   pdfVars,
                   publishVars,
                   statVars,
                   legacyVars>>

NextValues ==
    \/ \E x \in IdArguments : ConstructIssueId(x)
    \/ \E ids \in SeqsUpTo(IssueNumbers \cup {PADDED}, MaxIssues) :
          ConstructCrawlRequest(ids)

SpecValues == Init /\ [][NextValues]_vars

\* Mutant of success_rate: the division is not guarded.
success_rate_Unguarded(r) ==
    [num |-> r.successful_issues, den |-> r.total_issues]

\* CrawlResult.success_rate, as the fraction num/den; 0.0 is 0/1.
success_rate(r) ==
    IF r.total_issues = 0 THEN [num |-> 0, den |-> 1]
    ELSE [num |-> r.successful_issues, den |-> r.total_issues]

\* CrawlResult.is_fully_successful
is_fully_successful(r) == r.successful_issues = r.total_issues

\* The two properties of the CrawlResult r, which came from a crawl_issues
\* call or from the constructor.
ReadProperties(r, from) ==
    /\ arg' = r
    /\ made' = [kind |-> "CrawlResult", from |-> from,
                success_rate |-> success_rate(r),
                is_fully_successful |-> is_fully_successful(r)]
    /\ UNCHANGED <<crawlVars, busVars, nameVars, entityVars, overlapVars,
                   configVars,
                   storageVars,
                   pdfVars,
                   publishVars,
                   statVars,
                   legacyVars>>

\* CrawlResult(t, s, f, 0, 0): the dataclass takes any integers.
MakeCrawlResult(t, s, f) ==
    /\ pc = "new"
    /\ made.kind = "none"
    /\ ReadProperties([returned |-> TRUE, total_issues |-> t,
                       successful_issues |-> s, failed_issues |-> f,
                       attachments_downloaded |-> 0, pdfs_generated |-> 0],
                      "constructor")

\* The caller of crawl_issues reads the properties of what it returned.
ReadCrawlResult ==
    /\ pc = "returned"
    /\ made.kind = "none"
    /\ ReadProperties(result, "crawl_issues")

NextResults ==
    \/ /\ pc = "new"
       /\ made.kind = "none"
       /\ \E ids \in SeqsUpTo(AnyIssueNumbers, MaxIssues), parent \in BOOLEAN :
             NewCrawlRequest(ids, parent)
    \/ Crawl
    \/ IssueIdFails
    \/ \E t, s, f \in 0..MaxIssues : MakeCrawlResult(t, s, f)
    \/ ReadCrawlResult

SpecResults == Init /\ [][NextResults]_vars

\* ======================================================== properties
EventTypes(evs) == {evs[k].type : k \in 1..Len(evs)}
IsPrefix(s, t) == Len(s) <= Len(t) /\ s = SubSeq(t, 1, Len(s))
Called(op) == {calls[k][2] : k \in {m \in 1..Len(calls) : calls[m][1] = op}}
Total == Len(request.issue_numbers)
CurrentId == IssueIdValue(request.issue_numbers[i])

C2_NoWorkWithoutIssue ==
    issue.fetch \in {"none", "raise"} =>
        /\ Called("download_attachment") = {}
        /\ Called("generate_pdf") = {}
        /\ EventTypes(events) \cap
              {"AttachmentDownloadStarted", "AttachmentDownloadCompleted",
               "PdfGenerationStarted", "PdfGenerationCompleted"} = {}

\* get_by_id raised and process_issue has returned.
C2_Witness ==
    /\ pc = "sleep"
    /\ issue.fetch = "raise"
    /\ Last(events) = IssueProcessingFailed(CurrentId, "exception")

\* C3: every handler is handed the events in the order they were published
\* and record by record: what a handler has been handed since the last
\* inter-record sleep is a prefix of what was published since then, every
\* record event published, waiting or handed over in that window carries the
\* identifier of the record the loop is at, and no record event is still
\* waiting for a handler when the loop is about to take the next entry.
C3_ReceiptFollowsPublication ==
    /\ \A h \in 1..Len(handlers) : IsPrefix(received[h], events)
    /\ \A k \in 1..Len(events) :
          events[k].type \in RecordEventTypes =>
              i <= Total /\ events[k].issue_id = CurrentId
    /\ \A k \in 1..Len(pending) :
          /\ pending[k][2].type \in RecordEventTypes =>
                i <= Total /\ pending[k][2].issue_id = CurrentId
          /\ pc = "loop" => pending[k][2].type \notin RecordEventTypes

\* A coroutine handler in the second record of a batch: it has been handed
\* that record's first event and a later event is waiting on the loop.
C3_Witness ==
    /\ handlers = <<"coroutine">>
    /\ i = 2
    /\ Len(received[1]) >= 1
    /\ received[1][1] = IssueProcessingStarted(IssueIdValue(ID101))
    /\ Len(pending) >= 2

\* C4: the CrawlResult reports attachments_downloaded equal to the number of
\* attachments whose download succeeded in the session.
C4_AttachmentsCounted ==
    result.returned => result.attachments_downloaded = downloads_ok

\* C5: asyncio.sleep is awaited between consecutive records only, never
\* after the last record of the request.
C5_NoSleepAfterLast ==
    \A k \in 1..Len(sleeps) : sleeps[k] < Total

\* C6: a request that validate_crawl_request finds a violation in makes
\* crawl_issues raise before a session id is generated, an event is
\* published or a repository is called.
C6_InvalidRequestTouchesNothing ==
    (pc \notin {"new", "rejected"} /\ validate_crawl_request(request) # <<>>) =>
        /\ pc \in {"ready", "raised"}
        /\ pc = "raised" => raised = "ValueError"
        /\ session_id = ""
        /\ events = <<>> /\ pending = <<>>
        /\ calls = <<>> /\ processed = <<>>
        /\ ~result.returned

\* crawl_issues raised on a request whose output directory has no parent.
C6_Witness ==
    /\ pc = "raised"
    /\ ~request.parent_exists
    /\ Len(request.issue_numbers) = 2

\* C7: a request with an entry that validate_issue_id rejects never gets as
\* far as a record fetch.
C7_FormatEnforced ==
    (\E k \in 1..Total : ~validate_issue_id(request.issue_numbers[k])) =>
        /\ processed = <<>>
        /\ calls = <<>>

\* How far a crawl_issues call has come: every step of the call raises it.
Progress ==
    LET width == MaxAttachments + 5
        step == CASE pc = "loop" -> 0
                  [] pc = "fetch" -> 1
                  [] pc = "attachments" -> 1 + j
                  [] pc = "pdf" -> MaxAttachments + 2
                  [] pc = "save" -> MaxAttachments + 3
                  [] pc = "sleep" -> MaxAttachments + 4
                  [] OTHER -> 0
    IN CASE pc \in {"new", "rejected", "ready"} -> 0
         [] pc \in {"raised", "returned"} -> (MaxIssues + 2) * width
         [] OTHER -> i * width + step

\* C8: a crawl_issues call on a request that passes validation never raises
\* and comes to return a CrawlResult, also when every record fails: it has
\* not raised, it has a next step until it has returned, every step brings
\* it further, and where it ends it has a CrawlResult.
C8_NeverRaises ==
    (pc \notin {"new", "rejected"} /\ validate_crawl_request(request) = <<>>) =>
        /\ raised = "none"
        /\ pc # "returned" => ENABLED NextAnyIds
        /\ pc = "returned" => result.returned

C8_AlwaysReturns ==
    /\ []C8_NeverRaises
    /\ [][pc # "new" => Progress' > Progress]_vars

\* A returned session of MaxIssues records none of which succeeded, one of
\* them through an exception inside the loop.
C8_Witness ==
    /\ pc = "returned"
    /\ result.total_issues = MaxIssues
    /\ result.successful_issues = 0
    /\ \E k \in 1..Total : request.issue_numbers[k] = INT7
    /\ \E k \in 1..Total : request.issue_numbers[k] = ID100

\* C9: a record that get_by_id does not find ends with IssueProcessingFailed
\* and a False return, and process_issue is still called for every entry of
\* the request, in request order.
C9_NotFoundIsLocal ==
    /\ (pc = "sleep" /\ issue.fetch = "none") =>
          /\ ret = "false"
          /\ Last(events) = IssueProcessingFailed(CurrentId, "not found")
          /\ "IssueProcessingCompleted" \notin EventTypes(events)
    /\ pc \in {"loop", "returned"} => Len(processed) = i - 1
    /\ pc \in {"fetch", "attachments", "pdf", "save", "sleep"} =>
          Len(processed) = i
    /\ pc = "returned" => Len(processed) = Total
    /\ \A k \in 1..Len(processed) :
          processed[k] = IssueIdValue(request.issue_numbers[k])

\* The first of three records was not found and process_issue has returned.
C9_Witness ==
    /\ pc = "sleep"
    /\ issue.fetch = "none"
    /\ i = 1
    /\ Total = 3
    /\ failed_count = 1

CountCalls(op, v) ==
    Cardinality({m \in 1..Len(calls) : calls[m][1] = op /\ calls[m][2] = v})

C12_FetchedMeansCompleted_Original ==
    (pc = "sleep" /\ issue.fetch = "issue") =>
        /\ ret = "true"
        /\ Last(events).type = "IssueProcessingCompleted"

\* C12 amended: once get_by_id has returned a record, what the downloads and
\* the render do does not decide the outcome; the save does: process_issue
\* ends with IssueProcessingCompleted and returns True when save returns,
\* and ends with IssueProcessingFailed and returns False when save raises.
C12_FetchedMeansCompleted ==
    (pc = "sleep" /\ issue.fetch = "issue") =>
        /\ Called("save") \in {{"ok"}, {"raise"}}
        /\ "ok" \in Called("save") =>
              /\ ret = "true"
              /\ Last(events).type = "IssueProcessingCompleted"
              /\ "IssueProcessingFailed" \notin EventTypes(events)
        /\ "raise" \in Called("save") =>
              /\ ret = "false"
              /\ Last(events).type = "IssueProcessingFailed"
              /\ "IssueProcessingCompleted" \notin EventTypes(events)

\* Every download and the render of a fetched record failed and the record
\* was completed all the same.
C12_Witness ==
    /\ pc = "sleep"
    /\ issue.fetch = "issue"
    /\ issue.attachments = MaxAttachments
    /\ Called("download_attachment") = {"failed"}
    /\ Called("generate_pdf") = {"failed"}
    /\ ret = "true"

\* The handlers of the invocations a publish made, in order.
InvokedHandlers == [k \in 1..Len(invoked) |-> invoked[k].handler]

\* C13: publish invokes the handlers subscribed to the event's type in the
\* order they were subscribed and then the global handlers in the order
\* they were subscribed, and no handler of another type; subscribe and
\* subscribe_all put the new handler at the end of their list.
C13_InvokedInOrder ==
    last_op.op = "publish" =>
        InvokedHandlers = HandlersFor(last_op.type) \o global_handlers

C13_SubscribeAppends ==
    /\ last_op'.op = "subscribe" =>
          /\ bus_handlers'[last_op'.type] =
                Append(HandlersFor(last_op'.type), last_op'.handler)
          /\ \A u \in DOMAIN bus_handlers \ {last_op'.type} :
                bus_handlers'[u] = bus_handlers[u]
          /\ global_handlers' = global_handlers
    /\ last_op'.op = "subscribe_all" =>
          /\ global_handlers' = Append(global_handlers, last_op'.handler)
          /\ bus_handlers' = bus_handlers

C13_PublishOrder == []C13_InvokedInOrder /\ [][C13_SubscribeAppends]_vars

\* A publish that invoked h2 and then h1 for the type and then h2 as a
\* global handler, while the other type has two registrations of h1.
C13_Witness ==
    /\ last_op = BusOp("publish", "IssueProcessingStarted", "none")
    /\ HandlersFor("IssueProcessingStarted") = <<"h2", "h1">>
    /\ HandlersFor("CrawlSessionStarted") = <<"h1", "h1">>
    /\ global_handlers = <<"h2">>
    /\ InvokedHandlers = <<"h2", "h1", "h2">>

\* C14: a handler that raises stops nothing: publish invokes every handler
\* registered after it, type-specific and global, returns without raising
\* and leaves the registrations as they were for the publishes that follow.
C14_AllInvoked ==
    last_op.op = "publish" =>
        /\ bus_raised = "none"
        /\ Len(invoked) = Len(HandlersFor(last_op.type)) + Len(global_handlers)
        /\ \A k \in 1..Len(invoked) :
              invoked[k].outcome = "raise" =>
                 \A m \in (k + 1)..(Len(HandlersFor(last_op.type))
                                      + Len(global_handlers)) :
                    /\ m <= Len(invoked)
                    /\ invoked[m].handler = Deliveries(last_op.type)[m]

C14_PublishKeepsRegistrations ==
    last_op'.op = "publish" => UNCHANGED <<bus_handlers, global_handlers>>

C14_RaisingHandlerIsIsolated ==
    []C14_AllInvoked /\ [][C14_PublishKeepsRegistrations]_vars

\* The first type-specific handler raised and the type-specific handler
\* and the global handler after it were invoked.
C14_Witness ==
    /\ last_op.op = "publish"
    /\ Len(HandlersFor(last_op.type)) = 2
    /\ Len(global_handlers) = 1
    /\ invoked[1].outcome = "raise"
    /\ Len(invoked) = 3
    /\ invoked[3].outcome = "ok"

\* C15: unsubscribe(type, h) for a handler that is not registered for the
\* type, or for a type without registrations, and unsubscribe_all(h) for a
\* handler that is not a global handler raise nothing and leave every
\* registration list as it was.
C15_UnsubscribeAbsent ==
    /\ (last_op'.op = "unsubscribe"
          /\ ~Registered(HandlersFor(last_op'.type), last_op'.handler)) =>
          /\ bus_raised' = "none"
          /\ UNCHANGED <<bus_handlers, global_handlers>>
    /\ (last_op'.op = "unsubscribe_all"
          /\ ~Registered(global_handlers, last_op'.handler)) =>
          /\ bus_raised' = "none"
          /\ UNCHANGED <<bus_handlers, global_handlers>>

C15_UnsubscribeAbsentIsNoOp == [][C15_UnsubscribeAbsent]_vars

\* unsubscribe was called for h2 on a type where only h1 is registered.
C15_Witness ==
    /\ last_op = BusOp("unsubscribe", "CrawlSessionStarted", "h2")
    /\ HandlersFor("CrawlSessionStarted") = <<"h1", "h1">>
    /\ global_handlers = <<"h2">>

\* C16: _sanitize_filename applied to its own result returns that result,
\* also for a name that was cut to 100 characters.
C16_SanitizeIdempotent ==
    resanitized.called => resanitized.value = sanitized.value

AllIn(s, chars) == \A k \in 1..Len(s) : s[k] \in chars

C18_FilenamesUnique ==
    \A k, m \in 1..Len(attachments) :
        attachments[k].filename = attachments[m].filename => k = m

Started(c) == call[c].pc # "idle"

\* C19: two crawl_issues sessions of one process run have different session
\* identifiers, also when they start within the same second.
C19_SessionIdsDiffer ==
    \A c, d \in Calls :
        (c # d /\ Started(c) /\ Started(d)) =>
            call[c].started_id # call[d].started_id

C21_SuccessRate ==
    made.kind = "CrawlResult" =>
        /\ arg.total_issues = 0 => made.success_rate = [num |-> 0, den |-> 1]
        /\ arg.total_issues # 0 =>
              /\ made.success_rate.den # 0
              /\ made.success_rate.num * arg.total_issues
                   = arg.successful_issues * made.success_rate.den
        /\ made.from = "crawl_issues" =>
              /\ 0 <= arg.successful_issues
              /\ arg.successful_issues <= arg.total_issues
              /\ made.success_rate.den > 0
              /\ 0 <= made.success_rate.num
              /\ made.success_rate.num <= made.success_rate.den
        /\ made.is_fully_successful <=>
              arg.successful_issues = arg.total_issues

\* The result of a session with one success among two records: rate 1/2,
\* not fully successful.
C21_Witness ==
    /\ made.kind = "CrawlResult"
    /\ made.from = "crawl_issues"
    /\ made.success_rate = [num |-> 1, den |-> 2]
    /\ ~made.is_fully_successful

StartsOrEndsBlank(s) ==
    s # <<>> /\ (Head(s) \in Whitespace \/ Last(s) \in Whitespace)

\* C22: IssueId(raw) for a string raw raises ValueError when raw is empty
\* or only whitespace; otherwise it succeeds and its value is raw without
\* leading and trailing whitespace, which is not empty.
C22_IssueIdTrimmed ==
    (made.kind = "IssueId" /\ arg.kind = "str") =>
        /\ strip(arg.text) = <<>> => made.raised = "ValueError"
        /\ strip(arg.text) # <<>> =>
              /\ made.raised = "none"
              /\ made.value = strip(arg.text)
              /\ made.value # <<>>
              /\ ~StartsOrEndsBlank(made.value)

\* IssueId(" 100 ") was built with the value "100".
C22_Witness ==
    /\ made.kind = "IssueId"
    /\ arg = PADDED
    /\ made.raised = "none"
    /\ made.value = <<"1", "0", "0">>

\* C23: CrawlRequest(ids, ...) raises ValueError exactly when ids is empty
\* or has an empty or whitespace-only entry; a CrawlRequest that was built
\* holds the list it was given, which is not empty and has no blank entry.
C23_CrawlRequestChecked ==
    made.kind = "CrawlRequest" =>
        /\ made.raised = "ValueError" <=>
              \/ arg = <<>>
              \/ \E k \in 1..Len(arg) : strip(arg[k].text) = <<>>
        /\ made.raised \in {"none", "ValueError"}
        /\ made.raised = "none" =>
              /\ made.value.issue_numbers = arg
              /\ made.value.issue_numbers # <<>>
              /\ \A k \in 1..Len(made.value.issue_numbers) :
                    strip(made.value.issue_numbers[k].text) # <<>>

\* A list whose second entry is blank was refused.
C23_Witness ==
    /\ made.kind = "CrawlRequest"
    /\ made.raised = "ValueError"
    /\ Len(arg) = 2
    /\ arg[1] = ID100
    /\ arg[2] = BLANK

InRecord == pc \in {"fetch", "attachments", "pdf", "save", "sleep"}
TerminalTypes == {"IssueProcessingCompleted", "IssueProcessingFailed"}
Indexes(evs, types) == {k \in 1..Len(evs) : evs[k].type \in types}
RecordEvents == SelectSeq(events, LAMBDA e : e.type \in RecordEventTypes)

\* C24: a process_issue call publishes IssueProcessingStarted first and
\* one terminal event last, IssueProcessingCompleted or
\* IssueProcessingFailed; it returns True exactly when that event is
\* IssueProcessingCompleted, and no exception leaves it.
C24_OneTerminalEvent ==
    /\ InRecord =>
          /\ raised = "none"
          /\ RecordEvents # <<>>
          /\ RecordEvents[1] = IssueProcessingStarted(CurrentId)
          /\ Cardinality(Indexes(events, {"IssueProcessingStarted"})) = 1
    /\ pc \in {"fetch", "attachments", "pdf", "save"} =>
          /\ Indexes(events, TerminalTypes) = {}
          /\ ret = "none"
    /\ pc = "sleep" =>
          /\ Indexes(events, TerminalTypes) = {Len(events)}
          /\ ret \in {"true", "false"}
          /\ ret = "true" <=> Last(events).type = "IssueProcessingCompleted"
    /\ pc = "raised" => processed = <<>>

\* A record that was fetched with an attachment and failed at the save: its
\* events begin with IssueProcessingStarted and end with
\* IssueProcessingFailed.
C24_Witness ==
    /\ pc = "sleep"
    /\ ret = "false"
    /\ issue.fetch = "issue"
    /\ issue.attachments = 1
    /\ Last(events).type = "IssueProcessingFailed"
    /\ Len(RecordEvents) >= 4

Rank(t) ==
    CASE t = "CrawlSessionStarted" -> 0
      [] t = "IssueProcessingStarted" -> 1
      [] t \in {"AttachmentDownloadStarted", "AttachmentDownloadCompleted"} -> 2
      [] t = "PdfGenerationStarted" -> 3
      [] t = "PdfGenerationCompleted" -> 4
      [] t \in TerminalTypes -> 5
      [] OTHER -> 6

CallRank(op) ==
    CASE op = "get_by_id" -> 1
      [] op = "download_attachment" -> 2
      [] op = "generate_pdf" -> 3
      [] OTHER -> 4

\* C25: the phases of a record never go backwards: IssueProcessingStarted,
\* then the fetch, then the attachment events, then PdfGenerationStarted,
\* then the render and PdfGenerationCompleted, then the terminal event, and
\* nothing after the terminal event.
C25_PhasesInOrder ==
    /\ \A k, m \in 1..Len(events) :
          k < m =>
             /\ Rank(events[k].type) <= Rank(events[m].type)
             /\ Rank(events[k].type) = Rank(events[m].type) =>
                   Rank(events[k].type) = 2
    /\ \A k, m \in 1..Len(calls) :
          k < m =>
             /\ CallRank(calls[k][1]) <= CallRank(calls[m][1])
             /\ calls[k][3] <= calls[m][3]
    /\ \A c \in 1..Len(calls) :
          /\ calls[c][3] \in 1..Len(events)
          /\ calls[c][1] = "get_by_id" =>
                events[calls[c][3]].type = "IssueProcessingStarted"
          /\ calls[c][1] = "generate_pdf" =>
                events[calls[c][3]].type = "PdfGenerationStarted"
          /\ \A k \in Indexes(events, {"PdfGenerationStarted"}) :
                calls[c][1] \in {"get_by_id", "download_attachment"} =>
                   calls[c][3] < k
          /\ \A k \in Indexes(events, {"PdfGenerationCompleted"}) :
                calls[c][1] = "generate_pdf" => calls[c][3] < k
          /\ \A k \in Indexes(events, TerminalTypes) : calls[c][3] < k
    /\ Indexes(events, {"PdfGenerationCompleted"}) # {} =>
          "true" \in Called("generate_pdf")
    /\ Indexes(events, {"PdfGenerationStarted"}) # {} =>
          Called("generate_pdf") # {}

\* The second record of a request went through every phase: two downloads,
\* a render and the completion.
C25_Witness ==
    /\ pc = "sleep"
    /\ i = 2
    /\ issue.attachments = 2
    /\ pdf_generated
    /\ ret = "true"
    /\ Len(events) = 8

Downloads == SelectSeq(calls, LAMBDA c : c[1] = "download_attachment")

\* C26: the attachments of a record are taken one at a time in their listed
\* order: AttachmentDownloadStarted comes before the download is invoked,
\* AttachmentDownloadCompleted comes only after a download that returned
\* True and before the next AttachmentDownloadStarted, and the completion
\* event counts the AttachmentDownloadCompleted events, which are no more
\* than the attachments.
C26_AttachmentsInOrder ==
    /\ Len(Downloads) <= issue.attachments
    /\ Cardinality(Indexes(events, {"AttachmentDownloadStarted"}))
         = Len(Downloads)
    /\ \A k \in 1..Len(Downloads) :
          LET at == Downloads[k][3]
          IN /\ at \in 1..Len(events)
             /\ events[at] = AttachmentDownloadStarted(CurrentId, k)
             /\ Downloads[k][2] = "true" =>
                   /\ at + 1 <= Len(events)
                   /\ events[at + 1] = AttachmentDownloadCompleted(CurrentId, k)
             /\ k < Len(Downloads) =>
                   Downloads[k + 1][3] =
                      at + (IF Downloads[k][2] = "true" THEN 2 ELSE 1)
    /\ \A e \in Indexes(events, {"AttachmentDownloadCompleted"}) :
          \E k \in 1..Len(Downloads) :
             Downloads[k][2] = "true" /\ e = Downloads[k][3] + 1
    /\ Cardinality(Indexes(events, {"AttachmentDownloadCompleted"}))
         <= issue.attachments
    /\ (pc = "sleep" /\ ret = "true") =>
          Last(events).attachments_downloaded =
             Cardinality(Indexes(events, {"AttachmentDownloadCompleted"}))

\* The first download of a record returned True, the second did not, and
\* the record was completed.
C26_Witness ==
    /\ pc = "sleep"
    /\ ret = "true"
    /\ Len(Downloads) = 2
    /\ Downloads[1][2] = "true"
    /\ Downloads[2][2] = "failed"
    /\ Cardinality(Indexes(events, {"AttachmentDownloadCompleted"})) = 1

\* An event of one of the types is published in the step.
PublishedInStep(types) ==
    /\ Len(events') > Len(events)
    /\ \E k \in (Len(events) + 1)..Len(events') : events'[k].type \in types

\* C27: a crawl_issues call that passes validation publishes
\* CrawlSessionStarted, with the number of entries of the request, once and
\* before any record event, and CrawlSessionCompleted once and after the
\* last record event, with the same session id and total and with the
\* successful count of the CrawlResult it returns.
C27_SessionStep ==
    /\ PublishedInStep({"CrawlSessionStarted"}) <=>
          (pc = "ready" /\ pc' = "loop")
    /\ (pc = "ready" /\ pc' = "loop") =>
          /\ validate_crawl_request(request) = <<>>
          /\ events = <<>> /\ processed = <<>> /\ calls = <<>>
          /\ events' = <<CrawlSessionStarted(session_id', Total)>>
    /\ pc' = "ready" => pc = "new"
    /\ pc # "returned"
    /\ pc \notin {"new", "ready"} => UNCHANGED <<request, session_id>>
    /\ PublishedInStep({"CrawlSessionCompleted"}) <=> pc' = "returned"
    /\ pc' = "returned" =>
          /\ i > Total
          /\ Len(events') = Len(events) + 1
          /\ Last(events').session_id = session_id
          /\ Last(events').total_issues = Total
          /\ Last(events').successful_issues = result'.successful_issues
          /\ result'.successful_issues = successful_count
    /\ PublishedInStep(RecordEventTypes) =>
          pc \in {"loop", "fetch", "attachments", "pdf", "save"} /\ InRecord'

C27_SessionEventsOnce == [][C27_SessionStep]_vars

\* A session of two records, one of them successful, has returned and its
\* CrawlSessionCompleted event is the last event.
C27_Witness ==
    /\ pc = "returned"
    /\ Total = 2
    /\ result.successful_issues = 1
    /\ Last(events).type = "CrawlSessionCompleted"
    /\ Last(events).total_issues = 2
    /\ Last(events).successful_issues = 1

\* C29: a crawl_issues call that has published CrawlSessionStarted and has
\* returned or raised has published CrawlSessionCompleted for its session
\* as its last event, with the number of records completed successfully so
\* far, also when it was cancelled at an await in the middle of the batch.
C29_CompletedWhenInterrupted ==
    (pc \in {"returned", "raised"} /\ session_id # "") =>
        /\ events # <<>>
        /\ Last(events).type = "CrawlSessionCompleted"
        /\ Last(events).session_id = session_id
        /\ Last(events).successful_issues = successful_count

\* C30: an identifier whose loop iteration raised outside process_issue's
\* own handling is counted as failed once and not as successful, and the
\* loop goes on: at the top of the loop every identifier before the
\* current one was counted once.
C30_CountedOnce ==
    pc = "loop" => successful_count + failed_count = i - 1

\* C31: save_attachment refuses content larger than max_file_size and a
\* destination whose extension is not allowed: it returns False, writes no
\* file and leaves attachment.size as it was.  attachment.size is set, to
\* the content length, only by a call that wrote the file and returned True.
C31_RefusedStep ==
    save_call'.called =>
       LET refused == \/ save_call'.len > MaxFileSize
                      \/ get_extension(save_call'.suffix)
                            \notin allowed_file_extensions
       IN /\ refused =>
               /\ ~save_call'.ret
               /\ file' = file
               /\ att_size' = att_size
          /\ att_size' # att_size =>
               /\ save_call'.ret
               /\ att_size' = {save_call'.len}
               /\ file' = {save_call'.len}
          /\ save_call'.ret =>
               /\ ~refused
               /\ att_size' = {save_call'.len}
               /\ file' = {save_call'.len}

C31_RefusedAttachmentUntouched == [][C31_RefusedStep]_vars

\* After a call that stored a file of one byte, a call with allowed size
\* and the extension .exe was refused: file and size are those of the
\* first call.
C31_Witness ==
    /\ save_call.called
    /\ save_call.len = 2
    /\ save_call.suffix = <<".", "e", "x", "e">>
    /\ ~save_call.ret
    /\ att_size = {1}
    /\ file = {1}

\* The part of a document name between "<id>_" and ".pdf".
TitlePart(name, id) == SubSeq(name, Len(id) + 2, Len(name) - Len(DOT_PDF))

\* C32: the document name is "<id>_<sanitized title>.pdf" for a record with
\* a non-empty title and "issue_<id>.pdf" for one without; the sanitized
\* title part has none of the characters < > : " / \ | ? *, is not empty and
\* has at most 100 characters.
C32_DocumentName ==
    pdf_filename.called =>
       LET name == pdf_filename.value
           id == pdf_issue.id
       IN IF pdf_issue.title = <<>>
          THEN name = ISSUE_ \o id \o DOT_PDF
          ELSE /\ Len(name) >= Len(id) + 1 + 1 + Len(DOT_PDF)
               /\ SubSeq(name, 1, Len(id) + 1) = id \o <<"_">>
               /\ SubSeq(name, Len(name) - Len(DOT_PDF) + 1, Len(name))
                    = DOT_PDF
               /\ Len(TitlePart(name, id)) \in 1..MaxFilenameLength
               /\ \A k \in 1..Len(TitlePart(name, id)) :
                     TitlePart(name, id)[k] \notin IllegalChars

\* A title of 100 illegal characters and two more was named: the title part
\* has exactly 100 characters.
C32_Witness ==
    /\ pdf_filename.called
    /\ Len(pdf_issue.title) = MaxFilenameLength + 2
    /\ pdf_issue.title[1] \in IllegalChars
    /\ Len(TitlePart(pdf_filename.value, pdf_issue.id)) = MaxFilenameLength

\* C33: _publish_event delivers each event to the handlers in the order
\* they were added, also with plain and coroutine handlers mixed on a
\* running loop; a handler that raises stops no later delivery and nothing
\* leaves _publish_event.
C33_RegistrationOrder ==
    /\ ~escaped
    /\ \A p, q \in 1..Len(delivered) :
          (p < q /\ delivered[p][2] = delivered[q][2]) =>
              delivered[p][1] < delivered[q][1]
    /\ \A e \in 1..published, h \in 1..Len(event_handlers) :
          \/ \E p \in 1..Len(delivered) : delivered[p] = <<h, e>>
          \/ \E t \in 1..Len(loop_tasks) : loop_tasks[t] = <<h, e>>

\* C34: every event published during a crawl_issues call is handled by
\* every registered handler, the CrawlSessionCompleted event published
\* right before the return included, also when the loop is shut down after
\* the return: once the loop is closed every handler has handled whatever
\* was published since the last inter-record sleep.
C34_AllHandled ==
    pc = "closed" => \A h \in 1..Len(handlers) : received[h] = events

\* The outcomes of the repositories in the record that just ended, read
\* from the call log.
ObservedOutcome ==
    LET CallsOf(op) == SelectSeq(calls, LAMBDA c : c[1] = op)
    IN [fetch |-> calls[1][2],
        downloads |-> [k \in 1..Len(Downloads) |-> Downloads[k][2]],
        pdf |-> IF CallsOf("generate_pdf") = <<>> THEN "failed"
                ELSE CallsOf("generate_pdf")[1][2],
        save |-> IF CallsOf("save") = <<>> THEN "ok"
                 ELSE CallsOf("save")[1][2]]

\* process_issue as a function agrees with process_issue taken step by
\* step: the same events and the same return value.
ProcessIssueAgrees ==
    pc = "sleep" =>
        LET r == process_issue(CurrentId, ObservedOutcome)
        IN /\ RecordEvents = r.events
           /\ (ret = "true") = r.ret

\* C35: with the wiring of main.py every event of the session reaches the
\* handlers subscribed on event_bus: after one session the
\* StatisticsEventHandler reports sessions_started = 1, sessions_completed
\* = 1 and issues_processed equal to the number of identifiers.
C35_MainStatistics ==
    (wiring = "event_publisher" /\ stat_op.op = "returned") =>
        /\ stats.sessions_started = 1
        /\ stats.sessions_completed = 1
        /\ stats.issues_processed = stat_op.total

Handled(type) == Cardinality({k \in 1..Len(tally) : tally[k] = type})

\* C37: once the events of finished process_issue calls have been handled
\* by a StatisticsEventHandler, issues_processed = issues_successful +
\* issues_failed, attachments_downloaded is the number of
\* AttachmentDownloadCompleted events and pdfs_generated the number of
\* PdfGenerationCompleted events; reset_statistics sets every counter to 0.
C37_CountersConsistent ==
    /\ stats.issues_processed = stats.issues_successful + stats.issues_failed
    /\ stats.issues_processed = Handled("IssueProcessingStarted")
    /\ stats.attachments_downloaded = Handled("AttachmentDownloadCompleted")
    /\ stats.pdfs_generated = Handled("PdfGenerationCompleted")
    /\ stat_op.op = "reset" => \A k \in DOMAIN stats : stats[k] = 0

C37_Witness ==
    /\ wiring = "handler"
    /\ stat_op.op = "returned"
    /\ stats.issues_successful = 1
    /\ stats.issues_failed = 1
    /\ stats.attachments_downloaded = 1
    /\ stats.pdfs_generated = 1

\* C36: when crawl_issues calls on one CrawlerService overlap, the
\* CrawlSessionCompleted event of each call carries the session id of the
\* CrawlSessionStarted event of that same call.
C36_CompletedCarriesOwnId ==
    \A c \in Calls :
        call[c].pc = "returned" => call[c].completed_id = call[c].started_id

\* C38: for the same outcomes of a record (page fetched or not, each
\* attachment downloaded or not, document rendered or not)
\* RedmineCrawler.crawl_single_issue returns true exactly when
\* process_issue returns true, so both crawlers count the same number of
\* successful records for a batch.
C38_SameSuccessful == batch.success_count = batch.successful_count

Occurrences(s, h) == Cardinality({k \in 1..Len(s) : s[k] = h})

\* C39: unsubscribe(type, h) removes exactly one registration of h for the
\* type, the earliest one, and leaves every other registration, of h and of
\* other handlers, in the order it was in; publish invokes a handler once
\* for each of its registrations, for the type and global; after clear()
\* no handler is registered and a publish invokes none.
C39_UnsubscribeRemovesEarliest ==
    (last_op'.op = "unsubscribe"
       /\ Registered(HandlersFor(last_op'.type), last_op'.handler)) =>
       LET old == bus_handlers[last_op'.type]
           new == bus_handlers'[last_op'.type]
       IN /\ \E k \in 1..Len(old) :
                /\ old[k] = last_op'.handler
                /\ \A m \in 1..(k - 1) : old[m] # last_op'.handler
                /\ new = [m \in 1..(Len(old) - 1) |->
                             IF m < k THEN old[m] ELSE old[m + 1]]
          /\ DOMAIN bus_handlers' = DOMAIN bus_handlers
          /\ \A u \in DOMAIN bus_handlers \ {last_op'.type} :
                bus_handlers'[u] = bus_handlers[u]
          /\ global_handlers' = global_handlers

C39_OncePerRegistration ==
    last_op.op = "publish" =>
        \A h \in BusHandlers :
            Occurrences(InvokedHandlers, h) =
                Occurrences(HandlersFor(last_op.type), h)
                  + Occurrences(global_handlers, h)

C39_ClearedBusInvokesNone ==
    /\ last_op'.op = "clear" =>
          /\ \A t \in BusEventTypes : HandlersFor(t)' = <<>>
          /\ global_handlers' = <<>>
    /\ (last_op.op = "clear" /\ last_op'.op = "publish") => invoked' = <<>>

C39_Registrations ==
    /\ []C39_OncePerRegistration
    /\ [][C39_UnsubscribeRemovesEarliest /\ C39_ClearedBusInvokesNone]_vars

\* unsubscribe took h1 from a list of three registrations and left h2
\* before the later h1, which is also a global handler.
C39_Witness ==
    /\ last_op = BusOp("unsubscribe", "IssueProcessingStarted", "h1")
    /\ HandlersFor("IssueProcessingStarted") = <<"h2", "h1">>
    /\ global_handlers = <<"h1">>

\* C28: the CrawlResult reports pdfs_generated equal to the number of
\* records of the session whose completion event has pdf_generated = True.
C28_PdfsCounted ==
    result.returned => result.pdfs_generated = renders_ok
====
